---- MODULE Spec2Model ----
(***************************************************************************)
(* Model of the Scalable Capital transaction converters:                   *)
(*   convertTransactions   (TradingView, lib/csv-generator.ts)             *)
(*   convertToWealthfolio  (Wealthfolio, lib/wealthfolio-generator.ts)     *)
(* and of their shared classification, number parsing and aggregation.     *)
(*                                                                         *)
(* Strings are TLA+ strings; toLowerCase, trim and includes are computed   *)
(* character by character.  Numbers are exact rationals <<n, d>> in lowest *)
(* terms (IEEE rounding of doubles is not modelled).  Number.toString      *)
(* followed by parseFloat is exact in JavaScript, so a numeric output      *)
(* field is modelled as the number it denotes, tagged to distinguish the   *)
(* empty string '' from '0'.                                               *)
(***************************************************************************)
EXTENDS Integers, Sequences, FiniteSets, TLC

(***************************************************************************)
(* String primitives (String.prototype.includes / toLowerCase / trim)      *)
(***************************************************************************)
CharAt(s, i) == SubSeq(s, i, i)

Includes(s, sub) ==
  \E i \in 1..(Len(s) - Len(sub) + 1) : SubSeq(s, i, i + Len(sub) - 1) = sub

LowerChar(c) ==
  CASE c = "A" -> "a" [] c = "B" -> "b" [] c = "C" -> "c" [] c = "D" -> "d"
    [] c = "E" -> "e" [] c = "F" -> "f" [] c = "G" -> "g" [] c = "H" -> "h"
    [] c = "I" -> "i" [] c = "J" -> "j" [] c = "K" -> "k" [] c = "L" -> "l"
    [] c = "M" -> "m" [] c = "N" -> "n" [] c = "O" -> "o" [] c = "P" -> "p"
    [] c = "Q" -> "q" [] c = "R" -> "r" [] c = "S" -> "s" [] c = "T" -> "t"
    [] c = "U" -> "u" [] c = "V" -> "v" [] c = "W" -> "w" [] c = "X" -> "x"
    [] c = "Y" -> "y" [] c = "Z" -> "z" [] OTHER -> c

RECURSIVE ToLowerCase(_)
ToLowerCase(s) ==
  IF Len(s) = 0 THEN ""
  ELSE LowerChar(CharAt(s, 1)) \o ToLowerCase(SubSeq(s, 2, Len(s)))

UpperChar(c) ==
  CASE c = "a" -> "A" [] c = "b" -> "B" [] c = "c" -> "C" [] c = "d" -> "D"
    [] c = "e" -> "E" [] c = "f" -> "F" [] c = "g" -> "G" [] c = "h" -> "H"
    [] c = "i" -> "I" [] c = "j" -> "J" [] c = "k" -> "K" [] c = "l" -> "L"
    [] c = "m" -> "M" [] c = "n" -> "N" [] c = "o" -> "O" [] c = "p" -> "P"
    [] c = "q" -> "Q" [] c = "r" -> "R" [] c = "s" -> "S" [] c = "t" -> "T"
    [] c = "u" -> "U" [] c = "v" -> "V" [] c = "w" -> "W" [] c = "x" -> "X"
    [] c = "y" -> "Y" [] c = "z" -> "Z" [] OTHER -> c

RECURSIVE ToUpperCase(_)
ToUpperCase(s) ==
  IF Len(s) = 0 THEN ""
  ELSE UpperChar(CharAt(s, 1)) \o ToUpperCase(SubSeq(s, 2, Len(s)))

StartsWith(s, prefix) ==
  Len(s) >= Len(prefix) /\ SubSeq(s, 1, Len(prefix)) = prefix

IsSpace(c) == c = " " \/ c = "\t"

RECURSIVE TrimStart(_)
TrimStart(s) ==
  IF Len(s) > 0 /\ IsSpace(CharAt(s, 1)) THEN TrimStart(SubSeq(s, 2, Len(s)))
  ELSE s

RECURSIVE TrimEnd(_)
TrimEnd(s) ==
  IF Len(s) > 0 /\ IsSpace(CharAt(s, Len(s)))
  THEN TrimEnd(SubSeq(s, 1, Len(s) - 1))
  ELSE s

Trim(s) == TrimEnd(TrimStart(s))

\* s.match(/c/g).length
RECURSIVE CountChar(_, _)
CountChar(s, c) ==
  IF Len(s) = 0 THEN 0
  ELSE (IF CharAt(s, 1) = c THEN 1 ELSE 0) + CountChar(SubSeq(s, 2, Len(s)), c)

\* s.lastIndexOf(c), zero-based, -1 when absent
RECURSIVE LastIndexOf(_, _)
LastIndexOf(s, c) ==
  IF Len(s) = 0 THEN -1
  ELSE IF CharAt(s, Len(s)) = c THEN Len(s) - 1
  ELSE LastIndexOf(SubSeq(s, 1, Len(s) - 1), c)

\* s.replace(/c/g, '')
RECURSIVE RemoveAll(_, _)
RemoveAll(s, c) ==
  IF Len(s) = 0 THEN ""
  ELSE (IF CharAt(s, 1) = c THEN "" ELSE CharAt(s, 1))
         \o RemoveAll(SubSeq(s, 2, Len(s)), c)

\* s.replace(c, r) with a string pattern: only the first occurrence
RECURSIVE ReplaceFirst(_, _, _)
ReplaceFirst(s, c, r) ==
  IF Len(s) = 0 THEN ""
  ELSE IF CharAt(s, 1) = c THEN r \o SubSeq(s, 2, Len(s))
  ELSE CharAt(s, 1) \o ReplaceFirst(SubSeq(s, 2, Len(s)), c, r)

\* s.split('.') : the sequence of dot-delimited segments
RECURSIVE SplitDot(_)
SplitDot(s) ==
  IF LastIndexOf(s, ".") = -1 THEN <<s>>
  ELSE LET k == LastIndexOf(s, ".") + 1
       IN  Append(SplitDot(SubSeq(s, 1, k - 1)), SubSeq(s, k + 1, Len(s)))

(***************************************************************************)
(* Numbers: exact rationals <<n, d>>, d > 0, in lowest terms               *)
(***************************************************************************)
AbsInt(i) == IF i < 0 THEN -i ELSE i

RECURSIVE Gcd(_, _)
Gcd(a, b) == IF b = 0 THEN a ELSE Gcd(b, a % b)

Rat(n, d) ==
  LET g == Gcd(AbsInt(n), d) IN IF n = 0 THEN <<0, 1>> ELSE <<n \div g, d \div g>>

Zero == <<0, 1>>
One == <<1, 1>>
RAdd(x, y) == Rat(x[1] * y[2] + y[1] * x[2], x[2] * y[2])
RMul(x, y) == Rat(x[1] * y[1], x[2] * y[2])
\* x / y for y > 0
RDiv(x, y) == Rat(x[1] * y[2], x[2] * y[1])
RAbs(x) == <<AbsInt(x[1]), x[2]>>
RPos(x) == x[1] > 0
RNeg(x) == x[1] < 0

RECURSIVE Pow10(_)
Pow10(k) == IF k = 0 THEN 1 ELSE 10 * Pow10(k - 1)

IsDigit(c) == c \in {"0", "1", "2", "3", "4", "5", "6", "7", "8", "9"}

DigitVal(c) ==
  CASE c = "0" -> 0 [] c = "1" -> 1 [] c = "2" -> 2 [] c = "3" -> 3
    [] c = "4" -> 4 [] c = "5" -> 5 [] c = "6" -> 6 [] c = "7" -> 7
    [] c = "8" -> 8 [] c = "9" -> 9

\* length of the longest run of digits of s starting at position i
RECURSIVE DigitRun(_, _)
DigitRun(s, i) ==
  IF i <= Len(s) /\ IsDigit(CharAt(s, i)) THEN 1 + DigitRun(s, i + 1) ELSE 0

\* value of the decimal digit string s
RECURSIVE DigitsValue(_)
DigitsValue(s) ==
  IF Len(s) = 0 THEN 0
  ELSE 10 * DigitsValue(SubSeq(s, 1, Len(s) - 1)) + DigitVal(CharAt(s, Len(s)))

NaN == <<0, 0>>

\* the decimal numeral made of the first il characters of s and the fl
\* digits after the dot that follows them; NaN when it has no digit
Numeral(s, il, fl) ==
  IF il = 0 /\ fl = 0 THEN NaN
  ELSE Rat(DigitsValue(SubSeq(s, 1, il)) * Pow10(fl)
             + DigitsValue(SubSeq(s, il + 2, il + 1 + fl)),
           Pow10(fl))

\* the longest prefix of s of the form digits[.digits], il digits first
Fraction(s, il) ==
  IF il + 1 <= Len(s) /\ CharAt(s, il + 1) = "."
    THEN Numeral(s, il, DigitRun(s, il + 2))
    ELSE Numeral(s, il, 0)

Unsigned(s) == Fraction(s, DigitRun(s, 1))

Negated(x) == IF x = NaN THEN NaN ELSE <<-x[1], x[2]>>

Signed(s) ==
  IF Len(s) > 0 /\ CharAt(s, 1) = "-"
    THEN Negated(Unsigned(SubSeq(s, 2, Len(s))))
  ELSE IF Len(s) > 0 /\ CharAt(s, 1) = "+"
    THEN Unsigned(SubSeq(s, 2, Len(s)))
  ELSE Unsigned(s)

\* parseFloat: skips leading white space, then reads the longest prefix of
\* the form [+-]digits[.digits]; NaN when that prefix has no digit.
\* (Exponents and "Infinity" are outside the inputs considered.)
parseFloat(str) == Signed(TrimStart(str))

\* x || 0 for a number x: NaN and 0 are falsy
OrZero(x) == IF x = NaN THEN Zero ELSE x

\* parts.slice(1).every((part) => part.length === 3) && parts.length > 1
isThousandSeparator(parts) ==
  (\A k \in 2..Len(parts) : Len(parts[k]) = 3) /\ Len(parts) > 1

\* the if-chain of parseEuropeanNumber on the trimmed value
Normalize(normalized, commaCount, dotCount, lastComma, lastDot) ==
  IF lastComma > lastDot
    THEN ReplaceFirst(RemoveAll(normalized, "."), ",", ".")
  ELSE IF lastDot > lastComma /\ commaCount > 0
    THEN RemoveAll(normalized, ",")
  ELSE IF commaCount = 1 /\ dotCount = 0
    THEN ReplaceFirst(normalized, ",", ".")
  ELSE IF dotCount > 0 /\ commaCount = 0
    THEN IF isThousandSeparator(SplitDot(normalized))
           THEN RemoveAll(normalized, ".")
           ELSE normalized
  ELSE normalized

Normalized(t) ==
  Normalize(t, CountChar(t, ","), CountChar(t, "."), LastIndexOf(t, ","),
            LastIndexOf(t, "."))

parseEuropeanNumber(value) ==
  IF value = "" \/ Trim(value) = "" THEN Zero
  ELSE OrZero(parseFloat(Normalized(Trim(value))))

(***************************************************************************)
(* lib/types.ts                                                            *)
(***************************************************************************)
VALID_STATUSES == <<"executed", "completed", "done">>
SKIP_STATUSES == <<"cancelled", "canceled", "rejected", "pending", "failed">>

\* JavaScript null / undefined, and '' as the parseFloat value of a field
Null == [null |-> TRUE]
Undefined == [undefined |-> TRUE]
EmptyField == NaN

\* symbolMap.get(isin)
MapGet(map, key) == IF key \in DOMAIN map THEN map[key] ELSE Undefined

\* array.some over a sequence of strings
SomeIncluded(words, s) == \E k \in 1..Len(words) : Includes(s, words[k])

(***************************************************************************)
(* Classification helpers shared by both generators                        *)
(***************************************************************************)
\* mutant of shouldSkipStatus: the status must equal a skip word
MutShouldSkipStatusExact(status) ==
  LET normalizedStatus == Trim(ToLowerCase(status))
  IN  \E k \in 1..Len(SKIP_STATUSES) : SKIP_STATUSES[k] = normalizedStatus

shouldSkipStatus(status) ==
  LET normalizedStatus == Trim(ToLowerCase(status))
  IN  SomeIncluded(SKIP_STATUSES, normalizedStatus)

\* mutant of isValidStatus: an empty status is not assumed valid
MutIsValidStatusNonEmpty(status) ==
  LET normalizedStatus == Trim(ToLowerCase(status))
  IN  SomeIncluded(VALID_STATUSES, normalizedStatus)

isValidStatus(status) ==
  LET normalizedStatus == Trim(ToLowerCase(status))
  IN  IF normalizedStatus = "" THEN TRUE
      ELSE SomeIncluded(VALID_STATUSES, normalizedStatus)

\* mutant of isStornoTransaction: only the description is searched for a marker
MutIsStornoDescriptionOnly(transaction) ==
  LET descLower == ToLowerCase(transaction.description)
      refLower == ToLowerCase(transaction.reference)
  IN  Includes(descLower, "storno")

isStornoTransaction(transaction) ==
  LET descLower == ToLowerCase(transaction.description)
      refLower == ToLowerCase(transaction.reference)
  IN  \/ Includes(descLower, "storno")
      \/ Includes(refLower, "cancel")
      \/ Includes(refLower, "storno")

\* Object.entries lookup: the value of the first entry satisfying the test
RECURSIVE FirstMatch(_, _, _)
FirstMatch(table, k, normalizedType) ==
  IF k > Len(table) THEN "null"
  ELSE IF Includes(normalizedType, table[k][1]) THEN table[k][2]
  ELSE FirstMatch(table, k + 1, normalizedType)

\* what a plain object inherits from Object.prototype under a lower-case
\* name: TYPE_MAPPING['constructor'] is the function Object and
\* TYPE_MAPPING['__proto__'] is Object.prototype, neither undefined nor null
OBJECT_PROTOTYPE ==
  << <<"constructor", "[Function: Object]">>,
     <<"__proto__", "[Object: null prototype] {}">> >>

\* TYPE_MAPPING[normalizedType], "undefined" when the lookup finds nothing
Lookup(table, normalizedType) ==
  IF \E k \in 1..Len(table) : table[k][1] = normalizedType
    THEN (CHOOSE e \in {table[k] : k \in 1..Len(table)} :
            e[1] = normalizedType)[2]
  ELSE IF \E k \in 1..Len(OBJECT_PROTOTYPE) :
            OBJECT_PROTOTYPE[k][1] = normalizedType
    THEN (CHOOSE e \in {OBJECT_PROTOTYPE[k] : k \in 1..Len(OBJECT_PROTOTYPE)} :
            e[1] = normalizedType)[2]
  ELSE "undefined"

\* the body of mapTransactionType on the normalized type
MapNormalized(table, normalizedType) ==
  IF Lookup(table, normalizedType) # "undefined"
    THEN Lookup(table, normalizedType)
    ELSE FirstMatch(table, 1, normalizedType)

\* mapTransactionType over a mapping table: exact key first, then the first
\* key (in insertion order) contained in the type
MapType(table, type) == MapNormalized(table, Trim(ToLowerCase(type)))

\* time.split(':').length === 2
HasTwoTimeParts(timePart) == CountChar(timePart, ":") = 1

\* time?.trim() || '00:00:00', padded with seconds
TimePart(time) ==
  LET t == IF Trim(time) = "" THEN "00:00:00" ELSE Trim(time)
  IN  IF HasTwoTimeParts(t) THEN t \o ":00" ELSE t

(***************************************************************************)
(* lib/csv-generator.ts : TradingView                                      *)
(***************************************************************************)
TYPE_MAPPING ==
  << <<"buy", "Buy">>, <<"savings plan", "Buy">>, <<"sparplan", "Buy">>,
     <<"sell", "Sell">>,
     <<"dividend", "Dividend">>, <<"distribution", "Dividend">>,
     <<"interest", "Dividend">>,
     <<"withdrawal", "Withdrawal">>, <<"deposit", "Deposit">>,
     <<"taxes and fees", "Taxes and fees">>, <<"taxes", "Taxes and fees">>,
     <<"tax", "Taxes and fees">>, <<"fee", "Taxes and fees">>,
     <<"security transfer", "null">>, <<"transfer", "null">>,
     <<"corporate action", "null">>, <<"stock split", "null">>,
     <<"merger", "null">>, <<"spin", "null">>, <<"spin-off", "null">> >>

mapTransactionType(type) == MapType(TYPE_MAPPING, type)

\* mutant of isInterestSettlement: only the description marks a settlement
MutIsInterestSettlementKktOnly(transaction) ==
  LET type == Trim(ToLowerCase(transaction.type))
      descLower == ToLowerCase(transaction.description)
  IN  IF type # "interest" THEN FALSE
      ELSE Includes(descLower, "kkt") \/ Includes(descLower, "abschluss")

isInterestSettlement(transaction) ==
  LET type == Trim(ToLowerCase(transaction.type))
      amount == parseEuropeanNumber(transaction.amount)
      tax == parseEuropeanNumber(transaction.tax)
      descLower == ToLowerCase(transaction.description)
      isKktAbschluss ==
        Includes(descLower, "kkt") \/ Includes(descLower, "abschluss")
  IN  IF type # "interest" THEN FALSE
      ELSE isKktAbschluss \/ RNeg(amount) \/ (isKktAbschluss /\ RPos(tax))

formatDateTime(date, time) ==
  IF date = "" THEN "" ELSE Trim(date) \o " " \o TimePart(time)

getTradingViewSymbol(resolved) ==
  IF resolved.tradingViewSymbol # <<>> /\ resolved.tradingViewSymbol[1] # ""
    THEN resolved.tradingViewSymbol[1]
    ELSE resolved.fullSymbol

\* One row's contribution to result / errors / skipped
Outcome(records, errs, skips) ==
  [records |-> records, errors |-> errs, skipped |-> skips]

\* mutant of Skip: the entry carries the one-based index of the row
MutSkipOneBased(transaction, rowNumber, reason) ==
  Outcome(<<>>, <<>>,
          << [row |-> rowNumber - 1, type |-> transaction.type,
              description |-> transaction.description, reason |-> reason] >>)

Skip(transaction, rowNumber, reason) ==
  Outcome(<<>>, <<>>,
          << [row |-> rowNumber, type |-> transaction.type,
              description |-> transaction.description, reason |-> reason] >>)

Fail(transaction, rowNumber, isin, error) ==
  Outcome(<<>>,
          << [row |-> rowNumber, isin |-> isin,
              description |-> transaction.description, error |-> error] >>,
          <<>>)

TvTx(symbol, side, qty, price, commission, closing) ==
  [Symbol |-> symbol, Side |-> side, Qty |-> qty, FillPrice |-> price,
   Commission |-> commission, ClosingTime |-> closing]

\* mutant of TvCash: the row's fee column becomes the record's commission
MutTvCashWithCommission(transaction, side, qty) ==
  Outcome(<< TvTx("$CASH", side, qty, EmptyField,
                  parseEuropeanNumber(transaction.fee),
                  formatDateTime(transaction.date, transaction.time)) >>,
          <<>>, <<>>)

TvCash(transaction, side, qty) ==
  Outcome(<< TvTx("$CASH", side, qty, EmptyField, EmptyField,
                  formatDateTime(transaction.date, transaction.time)) >>,
          <<>>, <<>>)

\* mutant of TvSymbol: the cash fallback for a missing ISIN applies to every side
MutTvSymbolCashFallback(transaction, rowNumber, symbolMap, side) ==
  LET resolved == MapGet(symbolMap, transaction.isin)
  IN  IF side \in {"Buy", "Sell", "Dividend"}
        THEN IF transaction.isin = ""
               THEN IF side # "null"
                      THEN [ok |-> TRUE, symbol |-> "$CASH"]
                      ELSE [ok |-> FALSE,
                            outcome |->
                              Fail(transaction, rowNumber, "",
                                   "Missing ISIN for trade transaction")]
               ELSE IF resolved \in {Null, Undefined}
                      THEN [ok |-> FALSE,
                            outcome |->
                              Fail(transaction, rowNumber, transaction.isin,
                                   "Could not resolve ISIN to ticker symbol")]
                      ELSE [ok |-> TRUE,
                            symbol |-> getTradingViewSymbol(resolved)]
        ELSE [ok |-> TRUE, symbol |-> "$CASH"]

\* mutant of TvSymbol: the symbol map is consulted before the isin is tested
MutTvSymbolMapFirst(transaction, rowNumber, symbolMap, side) ==
  LET resolved == MapGet(symbolMap, transaction.isin)
  IN  IF side \in {"Buy", "Sell", "Dividend"}
        THEN IF resolved \notin {Null, Undefined}
               THEN [ok |-> TRUE, symbol |-> getTradingViewSymbol(resolved)]
             ELSE IF transaction.isin = ""
               THEN IF side = "Dividend"
                      THEN [ok |-> TRUE, symbol |-> "$CASH"]
                      ELSE [ok |-> FALSE,
                            outcome |->
                              Fail(transaction, rowNumber, "",
                                   "Missing ISIN for trade transaction")]
             ELSE [ok |-> FALSE,
                   outcome |->
                     Fail(transaction, rowNumber, transaction.isin,
                          "Could not resolve ISIN to ticker symbol")]
        ELSE [ok |-> TRUE, symbol |-> "$CASH"]

\* "Determine symbol based on transaction type": the symbol, or the error
\* entry pushed instead
TvSymbol(transaction, rowNumber, symbolMap, side) ==
  LET resolved == MapGet(symbolMap, transaction.isin)
  IN  IF side \in {"Buy", "Sell", "Dividend"}
        THEN IF transaction.isin = ""
               THEN IF side = "Dividend"
                      THEN [ok |-> TRUE, symbol |-> "$CASH"]
                      ELSE [ok |-> FALSE,
                            outcome |->
                              Fail(transaction, rowNumber, "",
                                   "Missing ISIN for trade transaction")]
               ELSE IF resolved \in {Null, Undefined}
                      THEN [ok |-> FALSE,
                            outcome |->
                              Fail(transaction, rowNumber, transaction.isin,
                                   "Could not resolve ISIN to ticker symbol")]
                      ELSE [ok |-> TRUE,
                            symbol |-> getTradingViewSymbol(resolved)]
        ELSE [ok |-> TRUE, symbol |-> "$CASH"]

\* mutant of TvGeneral: rows are emitted whatever their quantity
MutTvGeneralAnyQuantity(transaction, rowNumber, symbolMap, side) ==
  LET sym == TvSymbol(transaction, rowNumber, symbolMap, side)
      fee == parseEuropeanNumber(transaction.fee)
      tax == parseEuropeanNumber(transaction.tax)
      commission == RAdd(RAbs(fee), RAbs(tax))
      price == parseEuropeanNumber(transaction.price)
      shares == RAbs(parseEuropeanNumber(transaction.shares))
      amount == RAbs(parseEuropeanNumber(transaction.amount))
      qty == IF side \in {"Buy", "Sell"} THEN shares ELSE amount
  IN  IF ~sym.ok THEN sym.outcome
      ELSE Outcome(
             << TvTx(sym.symbol, side, qty,
                     IF RPos(price) THEN price ELSE EmptyField,
                     IF RPos(commission) THEN commission ELSE EmptyField,
                     formatDateTime(transaction.date, transaction.time)) >>,
             <<>>, <<>>)

\* the tail of the forEach callback, from "Determine symbol" on
TvGeneral(transaction, rowNumber, symbolMap, side) ==
  LET sym == TvSymbol(transaction, rowNumber, symbolMap, side)
      fee == parseEuropeanNumber(transaction.fee)
      tax == parseEuropeanNumber(transaction.tax)
      commission == RAdd(RAbs(fee), RAbs(tax))
      price == parseEuropeanNumber(transaction.price)
      shares == RAbs(parseEuropeanNumber(transaction.shares))
      amount == RAbs(parseEuropeanNumber(transaction.amount))
      qty == IF side \in {"Buy", "Sell"} THEN shares
             ELSE IF side = "Dividend" THEN amount
             ELSE IF side \in {"Deposit", "Withdrawal", "Taxes and fees"}
               THEN amount
             ELSE Zero
  IN  IF ~sym.ok THEN sym.outcome
      ELSE IF ~RPos(qty)
        THEN IF side = "Dividend" /\ RPos(commission)
               THEN Skip(transaction, rowNumber,
                         "Dividend fully withheld for tax (zero net amount)")
             ELSE IF side \in {"Buy", "Sell"}
               THEN Skip(transaction, rowNumber,
                         "No shares/quantity specified")
             ELSE Skip(transaction, rowNumber, "Zero quantity/amount")
      ELSE Outcome(
             << TvTx(sym.symbol, side, qty,
                     IF RPos(price) THEN price ELSE EmptyField,
                     IF RPos(commission) THEN commission ELSE EmptyField,
                     formatDateTime(transaction.date, transaction.time)) >>,
             <<>>, <<>>)

\* the forEach callback of convertTransactions for one row
TvRow(transaction, index, symbolMap) ==
  LET rowNumber == index + 2
      side == mapTransactionType(transaction.type)
      amount == parseEuropeanNumber(transaction.amount)
      absAmount == RAbs(amount)
      tax == RAbs(parseEuropeanNumber(transaction.tax))
      totalTaxPayment == RAdd(tax, absAmount)
  IN  IF shouldSkipStatus(transaction.status)
        THEN Skip(transaction, rowNumber, "Status: " \o transaction.status)
      ELSE IF ~isValidStatus(transaction.status)
        THEN Skip(transaction, rowNumber,
                  "Unknown status: " \o transaction.status)
      ELSE IF side = "null"
        THEN Skip(transaction, rowNumber, "Transaction type not supported")
      ELSE IF isStornoTransaction(transaction)
        THEN IF ~RPos(absAmount)
               THEN Skip(transaction, rowNumber,
                         "Zero amount STORNO transaction")
               ELSE TvCash(transaction, "Deposit", absAmount)
      ELSE IF ToLowerCase(transaction.type) = "fee"
        THEN IF ~RPos(absAmount)
               THEN Skip(transaction, rowNumber, "Zero fee amount")
               ELSE TvCash(transaction,
                           IF RPos(amount) THEN "Deposit"
                                           ELSE "Taxes and fees",
                           absAmount)
      ELSE IF isInterestSettlement(transaction)
        THEN IF ~RPos(totalTaxPayment)
               THEN Skip(transaction, rowNumber,
                         "Zero tax/fee amount in interest settlement")
               ELSE TvCash(transaction, "Taxes and fees", totalTaxPayment)
      ELSE IF ToLowerCase(transaction.type) = "taxes"
        THEN IF ~RPos(absAmount)
               THEN Skip(transaction, rowNumber, "Zero tax amount")
               ELSE TvCash(transaction, "Taxes and fees", absAmount)
      ELSE TvGeneral(transaction, rowNumber, symbolMap, side)

\* parseFloat(field) || 0 on an output field
FieldNum(field) == OrZero(field)

\* mutant of aggregateGroup: the price is the mean of the prices
MutAggregateGroupMeanPrice(group) ==
  IF Len(group) = 0 THEN [thrown |-> "Cannot aggregate empty group"]
  ELSE IF Len(group) = 1 THEN group[1]
  ELSE
    LET RECURSIVE Totals(_)
        Totals(k) ==
          IF k = 0 THEN [qty |-> Zero, value |-> Zero, commission |-> Zero]
          ELSE LET t == Totals(k - 1)
                   qty == FieldNum(group[k].Qty)
                   price == FieldNum(group[k].FillPrice)
                   commission == FieldNum(group[k].Commission)
               IN  [qty |-> RAdd(t.qty, qty),
                    value |-> RAdd(t.value, price),
                    commission |-> RAdd(t.commission, commission)]
        tot == Totals(Len(group))
        avgPrice == RDiv(tot.value, Rat(Len(group), 1))
        lastTx == group[Len(group)]
    IN  TvTx(group[1].Symbol, group[1].Side,
             IF RPos(tot.qty) THEN tot.qty ELSE EmptyField,
             IF RPos(avgPrice) THEN avgPrice ELSE EmptyField,
             IF RPos(tot.commission) THEN tot.commission ELSE EmptyField,
             lastTx.ClosingTime)

\* mutant of aggregateGroup: the merged record takes the first closing time
MutAggregateGroupFirstTime(group) ==
  IF Len(group) = 0 THEN [thrown |-> "Cannot aggregate empty group"]
  ELSE IF Len(group) = 1 THEN group[1]
  ELSE
    LET RECURSIVE Totals(_)
        Totals(k) ==
          IF k = 0 THEN [qty |-> Zero, value |-> Zero, commission |-> Zero]
          ELSE LET t == Totals(k - 1)
                   qty == FieldNum(group[k].Qty)
                   price == FieldNum(group[k].FillPrice)
                   commission == FieldNum(group[k].Commission)
               IN  [qty |-> RAdd(t.qty, qty),
                    value |-> RAdd(t.value, RMul(qty, price)),
                    commission |-> RAdd(t.commission, commission)]
        tot == Totals(Len(group))
        avgPrice == IF RPos(tot.qty) THEN RDiv(tot.value, tot.qty) ELSE Zero
        lastTx == group[1]
    IN  TvTx(group[1].Symbol, group[1].Side,
             IF RPos(tot.qty) THEN tot.qty ELSE EmptyField,
             IF RPos(avgPrice) THEN avgPrice ELSE EmptyField,
             IF RPos(tot.commission) THEN tot.commission ELSE EmptyField,
             lastTx.ClosingTime)

\* aggregateGroup of csv-generator.ts
aggregateGroup(group) ==
  IF Len(group) = 0 THEN [thrown |-> "Cannot aggregate empty group"]
  ELSE IF Len(group) = 1 THEN group[1]
  ELSE
    LET RECURSIVE Totals(_)
        Totals(k) ==
          IF k = 0 THEN [qty |-> Zero, value |-> Zero, commission |-> Zero]
          ELSE LET t == Totals(k - 1)
                   qty == FieldNum(group[k].Qty)
                   price == FieldNum(group[k].FillPrice)
                   commission == FieldNum(group[k].Commission)
               IN  [qty |-> RAdd(t.qty, qty),
                    value |-> RAdd(t.value, RMul(qty, price)),
                    commission |-> RAdd(t.commission, commission)]
        tot == Totals(Len(group))
        avgPrice == IF RPos(tot.qty) THEN RDiv(tot.value, tot.qty) ELSE Zero
        lastTx == group[Len(group)]
    IN  TvTx(group[1].Symbol, group[1].Side,
             IF RPos(tot.qty) THEN tot.qty ELSE EmptyField,
             IF RPos(avgPrice) THEN avgPrice ELSE EmptyField,
             IF RPos(tot.commission) THEN tot.commission ELSE EmptyField,
             lastTx.ClosingTime)

\* mutant of flushGroup: every group is handed to aggregateGroup
MutFlushGroupUnguarded(st) ==
  [st EXCEPT !.result = Append(@, aggregateGroup(st.currentGroup)),
             !.groups = Append(@, st.currentGroup),
             !.currentGroup = <<>>]

\* flushGroup closure of aggregateTransactions, on the loop state st;
\* groups lists the arguments of the calls of aggregateGroup (a history
\* value, not program state)
flushGroup(st) ==
  IF Len(st.currentGroup) = 0 THEN st
  ELSE IF Len(st.currentGroup) = 1
    THEN [st EXCEPT !.result = Append(@, st.currentGroup[1]),
                    !.currentGroup = <<>>]
    ELSE [st EXCEPT !.result = Append(@, aggregateGroup(st.currentGroup)),
                    !.groups = Append(@, st.currentGroup),
                    !.currentGroup = <<>>]

\* mutant of aggregateTransactions: a non-trade record is pushed without closing the group
MutAggregateTransactionsNoFlush(txs) ==
  LET RECURSIVE Loop(_)
      Loop(k) ==
        IF k = 0
          THEN [result |-> <<>>, currentGroup |-> <<>>,
                currentSymbol |-> <<>>, currentSide |-> <<>>,
                groups |-> <<>>]
          ELSE
            LET st == Loop(k - 1)
                tx == txs[k]
                isTradeable == tx.Side \in {"Buy", "Sell"}
            IN  IF isTradeable
                  THEN IF <<tx.Symbol>> = st.currentSymbol
                          /\ <<tx.Side>> = st.currentSide
                         THEN [st EXCEPT !.currentGroup = Append(@, tx)]
                         ELSE [flushGroup(st) EXCEPT
                                 !.currentSymbol = <<tx.Symbol>>,
                                 !.currentSide = <<tx.Side>>,
                                 !.currentGroup = <<tx>>]
                  ELSE [st EXCEPT !.result = Append(@, tx)]
  IN  IF Len(txs) = 0 THEN <<>> ELSE flushGroup(Loop(Len(txs))).result

\* mutant of TvAggregateRun: a group is closed once it holds two records
MutTvAggregateRunPairs(txs) ==
  LET RECURSIVE Loop(_)
      Loop(k) ==
        IF k = 0
          THEN [result |-> <<>>, currentGroup |-> <<>>,
                currentSymbol |-> <<>>, currentSide |-> <<>>,
                groups |-> <<>>]
          ELSE
            LET st == Loop(k - 1)
                tx == txs[k]
                isTradeable == tx.Side \in {"Buy", "Sell"}
            IN  IF isTradeable
                  THEN IF /\ <<tx.Symbol>> = st.currentSymbol
                          /\ <<tx.Side>> = st.currentSide
                          /\ Len(st.currentGroup) < 2
                         THEN [st EXCEPT !.currentGroup = Append(@, tx)]
                         ELSE [flushGroup(st) EXCEPT
                                 !.currentSymbol = <<tx.Symbol>>,
                                 !.currentSide = <<tx.Side>>,
                                 !.currentGroup = <<tx>>]
                  ELSE [flushGroup(st) EXCEPT
                          !.currentSymbol = <<>>,
                          !.currentSide = <<>>,
                          !.result = Append(@, tx)]
  IN  IF Len(txs) = 0 THEN [result |-> <<>>, groups |-> <<>>]
      ELSE flushGroup(Loop(Len(txs)))

\* mutant of TvAggregateRun: every record is treated as a trade
MutTvAggregateRunAllTradeable(txs) ==
  LET RECURSIVE Loop(_)
      Loop(k) ==
        IF k = 0
          THEN [result |-> <<>>, currentGroup |-> <<>>,
                currentSymbol |-> <<>>, currentSide |-> <<>>,
                groups |-> <<>>]
          ELSE
            LET st == Loop(k - 1)
                tx == txs[k]
                isTradeable == TRUE
            IN  IF isTradeable
                  THEN IF <<tx.Symbol>> = st.currentSymbol
                          /\ <<tx.Side>> = st.currentSide
                         THEN [st EXCEPT !.currentGroup = Append(@, tx)]
                         ELSE [flushGroup(st) EXCEPT
                                 !.currentSymbol = <<tx.Symbol>>,
                                 !.currentSide = <<tx.Side>>,
                                 !.currentGroup = <<tx>>]
                  ELSE [flushGroup(st) EXCEPT
                          !.currentSymbol = <<>>,
                          !.currentSide = <<>>,
                          !.result = Append(@, tx)]
  IN  IF Len(txs) = 0 THEN [result |-> <<>>, groups |-> <<>>]
      ELSE flushGroup(Loop(Len(txs)))

\* aggregateTransactions of csv-generator.ts
TvAggregateRun(txs) ==
  LET RECURSIVE Loop(_)
      Loop(k) ==
        IF k = 0
          THEN [result |-> <<>>, currentGroup |-> <<>>,
                currentSymbol |-> <<>>, currentSide |-> <<>>,
                groups |-> <<>>]
          ELSE
            LET st == Loop(k - 1)
                tx == txs[k]
                isTradeable == tx.Side \in {"Buy", "Sell"}
            IN  IF isTradeable
                  THEN IF <<tx.Symbol>> = st.currentSymbol
                          /\ <<tx.Side>> = st.currentSide
                         THEN [st EXCEPT !.currentGroup = Append(@, tx)]
                         ELSE [flushGroup(st) EXCEPT
                                 !.currentSymbol = <<tx.Symbol>>,
                                 !.currentSide = <<tx.Side>>,
                                 !.currentGroup = <<tx>>]
                  ELSE [flushGroup(st) EXCEPT
                          !.currentSymbol = <<>>,
                          !.currentSide = <<>>,
                          !.result = Append(@, tx)]
  IN  IF Len(txs) = 0 THEN [result |-> <<>>, groups |-> <<>>]
      ELSE flushGroup(Loop(Len(txs)))

aggregateTransactions(txs) == TvAggregateRun(txs).result

(***************************************************************************)
(* lib/wealthfolio-generator.ts : Wealthfolio                              *)
(***************************************************************************)
WfTYPE_MAPPING ==
  << <<"buy", "BUY">>, <<"savings plan", "BUY">>, <<"sparplan", "BUY">>,
     <<"sell", "SELL">>,
     <<"dividend", "DIVIDEND">>, <<"distribution", "DIVIDEND">>,
     <<"interest", "INTEREST">>,
     <<"withdrawal", "WITHDRAWAL">>, <<"deposit", "DEPOSIT">>,
     <<"taxes", "TAX">>, <<"tax", "TAX">>, <<"fee", "FEE">>,
     <<"taxes and fees", "FEE">>,
     <<"security transfer", "null">>, <<"transfer", "null">>,
     <<"corporate action", "null">>, <<"stock split", "null">>,
     <<"merger", "null">>, <<"spin", "null">>, <<"spin-off", "null">> >>

WfMapTransactionType(type) == MapType(WfTYPE_MAPPING, type)

YAHOO_FINANCE_SUFFIXES ==
  [GR |-> ".DE", GF |-> ".F", GM |-> ".MU", GT |-> ".DE", GS |-> ".SG",
   GH |-> ".HM", QT |-> ".DE"]

\* `${suffix}` for what YAHOO_FINANCE_SUFFIXES, a plain object, inherits
\* under the name exchCode: a truthy value that || does not replace
INHERITED_SUFFIXES ==
  << <<"constructor", "function Object() { [native code] }">>,
     <<"__proto__", "[object Object]">> >>

\* YAHOO_FINANCE_SUFFIXES[resolved.exchCode] || '.DE'; an absent exchCode
\* is the key "undefined"
YahooSuffix(exchCode) ==
  IF exchCode # <<>> /\ exchCode[1] \in DOMAIN YAHOO_FINANCE_SUFFIXES
    THEN YAHOO_FINANCE_SUFFIXES[exchCode[1]]
  ELSE IF exchCode # <<>>
          /\ \E k \in 1..Len(INHERITED_SUFFIXES) :
               INHERITED_SUFFIXES[k][1] = exchCode[1]
    THEN (CHOOSE e \in {INHERITED_SUFFIXES[k] :
                          k \in 1..Len(INHERITED_SUFFIXES)} :
            e[1] = exchCode[1])[2]
  ELSE ".DE"

convertToYahooSymbol(resolved) ==
  IF resolved.yahooSymbol # <<>> /\ resolved.yahooSymbol[1] # ""
    THEN resolved.yahooSymbol[1]
    ELSE resolved.ticker \o YahooSuffix(resolved.exchCode)

WfIsInterestSettlement(transaction) ==
  LET type == Trim(ToLowerCase(transaction.type))
      descLower == ToLowerCase(transaction.description)
      amount == parseEuropeanNumber(transaction.amount)
      isKktAbschluss ==
        Includes(descLower, "kkt") \/ Includes(descLower, "abschluss")
  IN  IF type # "interest" THEN FALSE ELSE isKktAbschluss \/ RNeg(amount)

WfFormatDateTime(date, time) ==
  IF date = "" THEN "" ELSE Trim(date) \o "T" \o TimePart(time) \o ".000Z"

WfTx(date, symbol, quantity, activityType, unitPrice, currency, fee, amount) ==
  [date |-> date, symbol |-> symbol, quantity |-> quantity,
   activityType |-> activityType, unitPrice |-> unitPrice,
   currency |-> currency, fee |-> fee, amount |-> amount]

\* a quantity-1 record on the cash pseudo-symbol
WfCashTx(transaction, currency, activityType, value) ==
  WfTx(WfFormatDateTime(transaction.date, transaction.time),
       "$CASH-" \o currency, One, activityType, value, currency, Zero, value)

WfCash(transaction, currency, activityType, value) ==
  Outcome(<< WfCashTx(transaction, currency, activityType, value) >>,
          <<>>, <<>>)

\* mutant of WfSettlement: the skip is pushed when either component is zero
MutWfSettlementOrSkip(transaction, rowNumber, currency) ==
  LET tax == RAbs(parseEuropeanNumber(transaction.tax))
      amount == RAbs(parseEuropeanNumber(transaction.amount))
      taxTx == IF RPos(tax)
                 THEN << WfCashTx(transaction, currency, "TAX", tax) >>
                 ELSE <<>>
      feeTx == IF RPos(amount)
                 THEN << WfCashTx(transaction, currency, "FEE", amount) >>
                 ELSE <<>>
  IN  Outcome(taxTx \o feeTx, <<>>,
              IF ~RPos(tax) \/ ~RPos(amount)
                THEN Skip(transaction, rowNumber,
                          "Zero tax/fee amount in interest settlement").skipped
                ELSE <<>>)

\* mutant of WfSettlement: the FEE record is pushed before the TAX record
MutWfSettlementFeeFirst(transaction, rowNumber, currency) ==
  LET tax == RAbs(parseEuropeanNumber(transaction.tax))
      amount == RAbs(parseEuropeanNumber(transaction.amount))
      taxTx == IF RPos(tax)
                 THEN << WfCashTx(transaction, currency, "TAX", tax) >>
                 ELSE <<>>
      feeTx == IF RPos(amount)
                 THEN << WfCashTx(transaction, currency, "FEE", amount) >>
                 ELSE <<>>
  IN  Outcome(feeTx \o taxTx, <<>>,
              IF ~RPos(tax) /\ ~RPos(amount)
                THEN Skip(transaction, rowNumber,
                          "Zero tax/fee amount in interest settlement").skipped
                ELSE <<>>)

\* the interest-settlement branch of the forEach callback
WfSettlement(transaction, rowNumber, currency) ==
  LET tax == RAbs(parseEuropeanNumber(transaction.tax))
      amount == RAbs(parseEuropeanNumber(transaction.amount))
      taxTx == IF RPos(tax)
                 THEN << WfCashTx(transaction, currency, "TAX", tax) >>
                 ELSE <<>>
      feeTx == IF RPos(amount)
                 THEN << WfCashTx(transaction, currency, "FEE", amount) >>
                 ELSE <<>>
  IN  Outcome(taxTx \o feeTx, <<>>,
              IF ~RPos(tax) /\ ~RPos(amount)
                THEN Skip(transaction, rowNumber,
                          "Zero tax/fee amount in interest settlement").skipped
                ELSE <<>>)

\* mutant of WfSymbol: the unresolved-ISIN entry is built like the missing-ISIN one
MutWfSymbolBlankIsin(transaction, rowNumber, symbolMap, activityType, currency) ==
  LET resolved == MapGet(symbolMap, transaction.isin)
  IN  IF activityType \in {"BUY", "SELL", "DIVIDEND"}
        THEN IF transaction.isin = ""
               THEN IF activityType = "DIVIDEND"
                      THEN [ok |-> TRUE, symbol |-> "$CASH-" \o currency]
                      ELSE [ok |-> FALSE,
                            outcome |->
                              Fail(transaction, rowNumber, "",
                                   "Missing ISIN for trade transaction")]
               ELSE IF resolved \in {Null, Undefined}
                      THEN [ok |-> FALSE,
                            outcome |->
                              Fail(transaction, rowNumber, "",
                                   "Could not resolve ISIN to ticker symbol")]
                      ELSE [ok |-> TRUE,
                            symbol |-> convertToYahooSymbol(resolved)]
        ELSE [ok |-> TRUE, symbol |-> "$CASH-" \o currency]

\* "Determine symbol": the symbol, or the error entry pushed instead
WfSymbol(transaction, rowNumber, symbolMap, activityType, currency) ==
  LET resolved == MapGet(symbolMap, transaction.isin)
  IN  IF activityType \in {"BUY", "SELL", "DIVIDEND"}
        THEN IF transaction.isin = ""
               THEN IF activityType = "DIVIDEND"
                      THEN [ok |-> TRUE, symbol |-> "$CASH-" \o currency]
                      ELSE [ok |-> FALSE,
                            outcome |->
                              Fail(transaction, rowNumber, "",
                                   "Missing ISIN for trade transaction")]
               ELSE IF resolved \in {Null, Undefined}
                      THEN [ok |-> FALSE,
                            outcome |->
                              Fail(transaction, rowNumber, transaction.isin,
                                   "Could not resolve ISIN to ticker symbol")]
                      ELSE [ok |-> TRUE,
                            symbol |-> convertToYahooSymbol(resolved)]
        ELSE [ok |-> TRUE, symbol |-> "$CASH-" \o currency]

\* the tail of the forEach callback, from "Determine symbol" on
WfGeneral(transaction, rowNumber, symbolMap, activityType, currency) ==
  LET sym == WfSymbol(transaction, rowNumber, symbolMap, activityType,
                      currency)
      isTrade == activityType \in {"BUY", "SELL"}
      isCashValued ==
        activityType \in {"DIVIDEND", "INTEREST", "DEPOSIT", "WITHDRAWAL"}
      fee == RAbs(parseEuropeanNumber(transaction.fee))
      tax == RAbs(parseEuropeanNumber(transaction.tax))
      totalFee == RAdd(fee, tax)
      price == parseEuropeanNumber(transaction.price)
      shares == RAbs(parseEuropeanNumber(transaction.shares))
      amount == RAbs(parseEuropeanNumber(transaction.amount))
      qty == IF isTrade THEN shares ELSE IF isCashValued THEN One ELSE Zero
      unitPrice ==
        IF isTrade THEN price ELSE IF isCashValued THEN amount ELSE Zero
      txAmount ==
        IF isTrade THEN RMul(qty, unitPrice)
        ELSE IF isCashValued THEN amount ELSE Zero
  IN  IF ~sym.ok THEN sym.outcome
      ELSE IF ~RPos(qty) \/ (~RPos(unitPrice) /\ ~isTrade)
        THEN IF activityType = "DIVIDEND" /\ RPos(totalFee)
               THEN Skip(transaction, rowNumber,
                         "Dividend fully withheld for tax (zero net amount)")
             ELSE IF isTrade /\ ~RPos(shares)
               THEN Skip(transaction, rowNumber,
                         "No shares/quantity specified")
             ELSE Skip(transaction, rowNumber, "Zero quantity/amount")
      ELSE Outcome(
             << WfTx(WfFormatDateTime(transaction.date, transaction.time),
                     sym.symbol, qty, activityType,
                     IF RPos(unitPrice) THEN unitPrice ELSE Zero,
                     currency,
                     IF RPos(totalFee) THEN totalFee ELSE Zero,
                     IF RPos(txAmount) THEN txAmount ELSE EmptyField) >>,
             <<>>, <<>>)

\* the forEach callback of convertToWealthfolio for one row
WfRow(transaction, index, symbolMap) ==
  LET rowNumber == index + 2
      activityType == WfMapTransactionType(transaction.type)
      currency == IF transaction.currency = "" THEN "EUR"
                  ELSE transaction.currency
      amount == parseEuropeanNumber(transaction.amount)
      absAmount == RAbs(amount)
  IN  IF shouldSkipStatus(transaction.status)
        THEN Skip(transaction, rowNumber, "Status: " \o transaction.status)
      ELSE IF ~isValidStatus(transaction.status)
        THEN Skip(transaction, rowNumber,
                  "Unknown status: " \o transaction.status)
      ELSE IF activityType = "null"
        THEN Skip(transaction, rowNumber, "Transaction type not supported")
      ELSE IF isStornoTransaction(transaction)
        THEN IF ~RPos(absAmount)
               THEN Skip(transaction, rowNumber,
                         "Zero amount STORNO transaction")
               ELSE WfCash(transaction, currency, "DEPOSIT", absAmount)
      ELSE IF ToLowerCase(transaction.type) = "fee"
        THEN IF ~RPos(absAmount)
               THEN Skip(transaction, rowNumber, "Zero fee amount")
               ELSE WfCash(transaction, currency,
                           IF RPos(amount) THEN "DEPOSIT" ELSE "FEE",
                           absAmount)
      ELSE IF WfIsInterestSettlement(transaction)
        THEN WfSettlement(transaction, rowNumber, currency)
      ELSE IF ToLowerCase(transaction.type) = "taxes"
        THEN IF ~RPos(absAmount)
               THEN Skip(transaction, rowNumber, "Zero tax amount")
               ELSE WfCash(transaction, currency, "TAX", absAmount)
      ELSE WfGeneral(transaction, rowNumber, symbolMap, activityType,
                     currency)

\* aggregateGroup of wealthfolio-generator.ts
WfAggregateGroup(group) ==
  IF Len(group) = 0 THEN [thrown |-> "Cannot aggregate empty group"]
  ELSE IF Len(group) = 1 THEN group[1]
  ELSE
    LET RECURSIVE Totals(_)
        Totals(k) ==
          IF k = 0 THEN [qty |-> Zero, value |-> Zero, fee |-> Zero]
          ELSE LET t == Totals(k - 1)
                   qty == FieldNum(group[k].quantity)
                   price == FieldNum(group[k].unitPrice)
                   fee == FieldNum(group[k].fee)
               IN  [qty |-> RAdd(t.qty, qty),
                    value |-> RAdd(t.value, RMul(qty, price)),
                    fee |-> RAdd(t.fee, fee)]
        tot == Totals(Len(group))
        avgPrice == IF RPos(tot.qty) THEN RDiv(tot.value, tot.qty) ELSE Zero
        lastTx == group[Len(group)]
        totalAmount == RMul(tot.qty, avgPrice)
    IN  WfTx(lastTx.date, group[1].symbol,
             IF RPos(tot.qty) THEN tot.qty ELSE Zero,
             group[1].activityType,
             IF RPos(avgPrice) THEN avgPrice ELSE Zero,
             group[1].currency,
             IF RPos(tot.fee) THEN tot.fee ELSE Zero,
             IF RPos(totalAmount) THEN totalAmount ELSE EmptyField)

\* flushGroup closure of the Wealthfolio aggregateTransactions
WfFlushGroup(st) ==
  IF Len(st.currentGroup) = 0 THEN st
  ELSE IF Len(st.currentGroup) = 1
    THEN [st EXCEPT !.result = Append(@, st.currentGroup[1]),
                    !.currentGroup = <<>>]
    ELSE [st EXCEPT !.result = Append(@, WfAggregateGroup(st.currentGroup)),
                    !.groups = Append(@, st.currentGroup),
                    !.currentGroup = <<>>]

\* mutant of WfAggregateTransactions: a group is continued on an equal symbol alone
MutWfAggregateTransactionsSymbolOnly(txs) ==
  LET RECURSIVE Loop(_)
      Loop(k) ==
        IF k = 0
          THEN [result |-> <<>>, currentGroup |-> <<>>,
                currentSymbol |-> <<>>, currentType |-> <<>>,
                groups |-> <<>>]
          ELSE
            LET st == Loop(k - 1)
                tx == txs[k]
                isTradeable == tx.activityType \in {"BUY", "SELL"}
            IN  IF isTradeable
                  THEN IF <<tx.symbol>> = st.currentSymbol
                         THEN [st EXCEPT !.currentGroup = Append(@, tx)]
                         ELSE [WfFlushGroup(st) EXCEPT
                                 !.currentSymbol = <<tx.symbol>>,
                                 !.currentType = <<tx.activityType>>,
                                 !.currentGroup = <<tx>>]
                  ELSE [WfFlushGroup(st) EXCEPT
                          !.currentSymbol = <<>>,
                          !.currentType = <<>>,
                          !.result = Append(@, tx)]
  IN  IF Len(txs) = 0 THEN <<>> ELSE WfFlushGroup(Loop(Len(txs))).result

\* aggregateTransactions of wealthfolio-generator.ts
WfAggregateRun(txs) ==
  LET RECURSIVE Loop(_)
      Loop(k) ==
        IF k = 0
          THEN [result |-> <<>>, currentGroup |-> <<>>,
                currentSymbol |-> <<>>, currentType |-> <<>>,
                groups |-> <<>>]
          ELSE
            LET st == Loop(k - 1)
                tx == txs[k]
                isTradeable == tx.activityType \in {"BUY", "SELL"}
            IN  IF isTradeable
                  THEN IF <<tx.symbol>> = st.currentSymbol
                          /\ <<tx.activityType>> = st.currentType
                         THEN [st EXCEPT !.currentGroup = Append(@, tx)]
                         ELSE [WfFlushGroup(st) EXCEPT
                                 !.currentSymbol = <<tx.symbol>>,
                                 !.currentType = <<tx.activityType>>,
                                 !.currentGroup = <<tx>>]
                  ELSE [WfFlushGroup(st) EXCEPT
                          !.currentSymbol = <<>>,
                          !.currentType = <<>>,
                          !.result = Append(@, tx)]
  IN  IF Len(txs) = 0 THEN [result |-> <<>>, groups |-> <<>>]
      ELSE WfFlushGroup(Loop(Len(txs)))

WfAggregateTransactions(txs) == WfAggregateRun(txs).result

(***************************************************************************)
(* lib/csv-parser.ts : extractUniqueIsins                                  *)
(***************************************************************************)
\* the filter callback of extractUniqueIsins
NeedsResolution(t) ==
  LET type == ToLowerCase(t.type)
      status == ToLowerCase(t.status)
  IN  IF \/ Includes(status, "cancelled")
         \/ Includes(status, "rejected")
         \/ Includes(status, "pending")
        THEN FALSE
      ELSE /\ t.isin # ""
           /\ Trim(t.isin) # ""
           /\ \/ Includes(type, "buy")
              \/ Includes(type, "sell")
              \/ Includes(type, "dividend")
              \/ Includes(type, "distribution")
              \/ Includes(type, "savings plan")
              \/ Includes(type, "sparplan")

\* [...new Set(isins)]: the first occurrence of each value, in order
RECURSIVE Unique(_)
Unique(isins) ==
  IF Len(isins) = 0 THEN <<>>
  ELSE LET front == Unique(SubSeq(isins, 1, Len(isins) - 1))
           last == isins[Len(isins)]
       IN  IF \E k \in 1..Len(front) : front[k] = last
             THEN front ELSE Append(front, last)

RECURSIVE FilteredIsins(_, _)
FilteredIsins(rows, k) ==
  IF k = 0 THEN <<>>
  ELSE IF NeedsResolution(rows[k])
    THEN Append(FilteredIsins(rows, k - 1), Trim(rows[k].isin))
  ELSE FilteredIsins(rows, k - 1)

extractUniqueIsins(rows) == Unique(FilteredIsins(rows, Len(rows)))

(***************************************************************************)
(* The OpenFIGI client: resolveIsinToTicker and its exchange selection.    *)
(***************************************************************************)
EXCHANGE_CODES ==
  [GM |-> "GETTEX", GR |-> "XETR", GT |-> "TRADEGATE", GF |-> "FRA",
   GS |-> "SWB", GH |-> "XHAM", QT |-> "QUOTRIX"]

\* mutant of EXCHANGE_PRIORITY: XETRA is tried before Gettex
MutPriorityXetraFirst == <<"GR", "GM", "GT", "GS", "GF", "GH", "QT">>

EXCHANGE_PRIORITY == <<"GM", "GR", "GT", "GS", "GF", "GH", "QT">>

\* instrument.field?.toUpperCase() || ''
UpperOrEmpty(field) == IF field = <<>> THEN "" ELSE ToUpperCase(field[1])

SelectedExchange(exchange, exchCode) ==
  [exchange |-> exchange, exchCode |-> exchCode]

\* mutant of selectTradingViewExchange: the ETF rules are applied first
MutSelectEtfFirst(isin, instrument, exchCode) ==
  LET securityType == UpperOrEmpty(instrument.securityType)
      securityType2 == UpperOrEmpty(instrument.securityType2)
      marketSector == UpperOrEmpty(instrument.marketSector)
  IN  IF /\ (securityType = "ETF" \/ securityType2 = "ETF")
         /\ (StartsWith(isin, "IE") \/ StartsWith(isin, "LU")
               \/ StartsWith(isin, "DE"))
        THEN SelectedExchange("XETR", "GR")
      ELSE IF \/ securityType \in {"ETP", "ETN", "ETC"}
              \/ securityType2 \in {"ETP", "ETN", "ETC"}
              \/ Includes(marketSector, "COMMODITY")
              \/ Includes(securityType, "CERTIFICATE")
              \/ Includes(securityType, "WARRANT")
              \/ Includes(securityType, "STRUCTURED")
              \/ Includes(securityType2, "CERTIFICATE")
              \/ Includes(securityType2, "WARRANT")
        THEN SelectedExchange("SWB", "GS")
      ELSE IF exchCode \in DOMAIN EXCHANGE_CODES
        THEN SelectedExchange(EXCHANGE_CODES[exchCode], exchCode)
      ELSE SelectedExchange("GETTEX", "GM")

selectTradingViewExchange(isin, instrument, exchCode) ==
  LET securityType == UpperOrEmpty(instrument.securityType)
      securityType2 == UpperOrEmpty(instrument.securityType2)
      marketSector == UpperOrEmpty(instrument.marketSector)
  IN  IF \/ securityType \in {"ETP", "ETN", "ETC"}
         \/ securityType2 \in {"ETP", "ETN", "ETC"}
         \/ Includes(marketSector, "COMMODITY")
        THEN SelectedExchange("SWB", "GS")
      ELSE IF \/ Includes(securityType, "CERTIFICATE")
              \/ Includes(securityType, "WARRANT")
              \/ Includes(securityType, "STRUCTURED")
              \/ Includes(securityType2, "CERTIFICATE")
              \/ Includes(securityType2, "WARRANT")
        THEN SelectedExchange("SWB", "GS")
      ELSE IF /\ (securityType = "ETF" \/ securityType2 = "ETF")
              /\ (StartsWith(isin, "IE") \/ StartsWith(isin, "LU"))
        THEN SelectedExchange("XETR", "GR")
      ELSE IF /\ (securityType = "ETF" \/ securityType2 = "ETF")
              /\ StartsWith(isin, "DE")
        THEN SelectedExchange("XETR", "GR")
      ELSE IF exchCode \in DOMAIN EXCHANGE_CODES
        THEN SelectedExchange(EXCHANGE_CODES[exchCode], exchCode)
      ELSE SelectedExchange("GETTEX", "GM")

\* the ResolvedSymbol returned for the first instrument of a response
ResolvedInstrument(isin, instrument, exchCode) ==
  LET selected == selectTradingViewExchange(isin, instrument, exchCode)
  IN  [ticker |-> instrument.ticker, exchange |-> selected.exchange,
       exchCode |-> <<selected.exchCode>>,
       fullSymbol |-> selected.exchange \o ":" \o instrument.ticker,
       tradingViewSymbol |-> <<>>, yahooSymbol |-> <<>>,
       securityType |-> instrument.securityType,
       securityType2 |-> instrument.securityType2,
       marketSector |-> instrument.marketSector]

\* result?.data && result.data.length > 0
HasData(result) ==
  result # Null /\ "data" \in DOMAIN result /\ Len(result.data) > 0

(***************************************************************************)
(* Inputs                                                                  *)
(***************************************************************************)
MaxContext == 1
MaxAggRows == 3
MaxIndepRows == 2

Tx(status, reference, description, type, isin, shares, price, amount, fee, tax, currency, date) ==
  [date |-> date, time |-> "10:30", status |-> status,
   reference |-> reference, description |-> description,
   assetType |-> "Security", type |-> type, isin |-> isin,
   shares |-> shares, price |-> price, amount |-> amount, fee |-> fee,
   tax |-> tax, currency |-> currency]

Resolved(ticker, exchCode, fullSymbol, tradingViewSymbol, yahooSymbol) ==
  [ticker |-> ticker, exchange |-> "XETR", exchCode |-> exchCode,
   fullSymbol |-> fullSymbol, tradingViewSymbol |-> tradingViewSymbol,
   yahooSymbol |-> yahooSymbol]

IsinA == "IE0003Z9E2Y3"
IsinB == "IE00063FT9K6"
IsinNull == "DE0007164600"
IsinAbsent == "US0378331005"

\* IsinA and IsinB resolve, IsinNull was looked up without success (null),
\* IsinAbsent was never looked up
SymbolMaps ==
  { (IsinA :> Resolved("4COP", <<"GR">>, "XETR:4COP", <<>>, <<>>))
      @@ (IsinB :> Resolved("COPM", <<"GS">>, "XETR:COPM",
                            <<"SWB:COPM">>, <<"">>))
      @@ (IsinNull :> Null) }

\* resolutions of IsinA: every exchange code of the suffix table, codes it
\* does not list, and a validated symbol that is absent, empty or present
ExchCodes ==
  {<<"GR">>, <<"GF">>, <<"GM">>, <<"GT">>, <<"GS">>, <<"GH">>, <<"QT">>,
   <<"XX">>, <<"gr">>, <<"">>, <<>>, <<"constructor">>, <<"__proto__">>}
SymbolVariants ==
  { (IsinA :> Resolved("4COP", code, "XETR:4COP", tradingViewSymbol,
                       yahooSymbol))
      @@ (IsinNull :> Null) :
      code \in ExchCodes,
      tradingViewSymbol \in {<<>>, <<"">>, <<"SWB:4COP">>},
      yahooSymbol \in {<<>>, <<"">>, <<"4COP.F">>} }

\* what OpenFIGI reports of an instrument: the structured kinds in either
\* case, kinds that only contain a keyword, and kinds outside the rules
SecurityTypes ==
  {<<>>, <<"ETP">>, <<"etn">>, <<"ETC">>, <<"ETF">>, <<"Common Stock">>,
   <<"Index Certificate">>, <<"Equity Warrant">>}
SecurityTypes2 ==
  {<<>>, <<"ETC">>, <<"ETF">>, <<"Warrant">>, <<"Mutual Fund">>}
MarketSectors == {<<>>, <<"Equity">>, <<"Comdty">>, <<"Commodity">>}

Instruments ==
  [ticker : {"4COP"}, securityType : SecurityTypes,
   securityType2 : SecurityTypes2, marketSector : MarketSectors]

\* what queryOpenFigi returns: null for a failed request, the service's
\* answer for an unknown identifier, an empty list, or the instruments found
OpenFigiResponses ==
  {Null, [warning |-> "No identifier found."], [data |-> <<>>]}
    \cup {[data |-> <<instrument>>] : instrument \in Instruments}

\* what fetch gives queryOpenFigi: a response of status 200 whose body
\* lists one item, a response that is not ok (rate limited, not found,
\* server error), or no response at all (status 0: fetch throws)
HttpResponses ==
  {[ok |-> TRUE, status |-> 200, body |-> <<item>>] :
     item \in OpenFigiResponses \ {Null}}
    \cup {[ok |-> FALSE, status |-> status, body |-> <<>>] :
            status \in {0, 404, 429, 500}}

\* mutant of RateLimitedResponse: every response that is not ok is retried
MutRetryEveryFailure(response) == ~response.ok

\* queryOpenFigi: if (!response.ok) { if (response.status === 429) ...
RateLimitedResponse(response) == ~response.ok /\ response.status = 429

\* queryOpenFigi: what it returns for a response that is not retried
Returned(response) == IF response.ok THEN response.body[1] ELSE Null

\* the identifiers looked up: an Irish, a German and a US one
LookupIsins == {IsinA, IsinNull, IsinAbsent}

ConversionModes == {"detailed", "aggregated"}

\* all sequences over S of length at most n
SeqsUpTo(S, n) == UNION {[1..k -> S] : k \in 0..n}

\* rows exercising the status gate against every later stage
StatusRows ==
  { Tx(st, "REF001", d, ty, i, "10", "25,50", "-255,00", "0,99", "0,00",
       "EUR", "2024-01-15") :
      st \in {"Cancelled", "canceled", "REJECTED", "Order pending",
              " Failed ", "Executed", "", "Settled", "   ", "Order DONE",
              " unknown "},
      d \in {"Test Stock", "STORNO Test Stock"},
      ty \in {"Buy", "Security Transfer", "Fee"},
      i \in {"", IsinAbsent} }

\* every transaction type against reversal markers and the sign of amount
TypeRows ==
  { Tx("Executed", "REF001", d, ty, IsinA, "10", "25,50", a, "0,99", "0,00",
       "EUR", "2024-01-15") :
      d \in {"Test Stock", "STORNO Test Stock"},
      ty \in {"Buy", "Sell", "Savings Plan", "Dividend", "Distribution",
              "Interest", "Deposit", "Withdrawal", "Tax", "Taxes", "Fee",
              "Taxes and fees", "Security Transfer", "Bonus"},
      a \in {"0", "-155,04", "100,00"} }

\* symbol assignment: missing, null-mapped, absent and resolved ISINs
IsinRows ==
  { Tx("Executed", "REF001", "Test Stock", ty, i, sh, "25,50", "-255,00",
       "", "", "", "2024-01-15") :
      ty \in {"Buy", "Sell", " sparplan", "Dividend", "Interest"},
      i \in {"", IsinNull, IsinAbsent, IsinB},
      sh \in {"0", "2,5"} }

\* interest rows: settlement by description or by sign, with and without tax
InterestRows ==
  { Tx(st, "REF001", d, "Interest", "", "", "", a, "0,00", t, "EUR",
       "2024-03-31") :
      st \in {"Executed", "Cancelled"},
      d \in {"Zinsen", "KKT-Abschluss"},
      a \in {"0", "-155,04", "50,00"},
      t \in {"", "185,98"} }

\* markers in the reference, unaccepted statuses, fully withheld dividends
EdgeRows ==
  { Tx(st, r, "Test Stock", ty, i, "10", "25,50", a, "", t, "USD",
       "2024-01-15") :
      st \in {"Executed", "Cancelled", "Settled"},
      r \in {"CANCEL-REF001"},
      ty \in {"Buy", "Fee", "Security Transfer"},
      i \in {""}, a \in {"0", "100,00"}, t \in {""} }
  \cup
  { Tx(st, "REF001", "Test Stock", ty, i, "10", "25,50", a, "", t, "USD",
       "2024-01-15") :
      st \in {"", "Cancelled", "Settled"},
      ty \in {"Buy", "Dividend", "Tax"},
      i \in {"", IsinA}, a \in {"0"}, t \in {"1,50"} }

\* the type column: exact keys in any case and padding, types that only
\* contain a key, unsupported kinds, unknown types and the two lower-case
\* names every object inherits
TypeMapRows ==
  { Tx("Executed", "REF001", d, ty, IsinA, "10", "25,50", a, "0,99", "0,00", "EUR", "2024-01-15") :
      d \in {"Test Stock", "STORNO Test Stock"},
      ty \in {"Buy", " SELL ", "Savings plan execution", "Taxes and fees",
              "TAXES", "Fee transfer", "Security transfer", "Transfer",
              "Corporate action", "Stock split", "Merger", "Spin-off",
              "spin", "Bonus", "constructor", "__proto__"},
      a \in {"0", "-155,04"} }

\* cash-like rows (interest, fee, dividend, distribution) with and without
\* an isin, of either sign, with the other columns blank or filled
CashRows ==
  { Tx("Executed", "REF001", "Zinsen", ty, i, o[1], o[2], a, o[3], o[4], o[5], "2024-03-31") :
      ty \in {"Interest", "Fee", "Dividend", "Distribution"},
      i \in {"", IsinA, IsinNull, IsinAbsent},
      a \in {"0", "-12,50", "50,00"},
      o \in { <<"", "", "", "", "">>,
              <<"10", "25,50", "0,99", "1,50", "USD">> } }

\* the amount column in every format parseEuropeanNumber tells apart:
\* European and US grouping, a lone comma, dots alone with segments of
\* three and of other lengths, blanks, and text with and without a leading
\* numeral
NumberStrings ==
  {"1.234,56", "1,234.56", "1.000", "25,50", "", "   ", " 25,50 ",
   "10.000.000", "1.5", "1.00", "1.0000", "12.3456", "1.000.5",
   "abc", ",", ".", "12abc", "25,50 EUR", "1,2,3"}

NumberRows ==
  { Tx("Executed", "REF001", "Einzahlung", "Deposit", "", "", "", a, "", "", "EUR", "2024-01-07") :
      a \in NumberStrings }

\* interest rows: settlements by description or by a negative amount,
\* plain interest, reversals, every kind of status, with and without tax
SettlementRows ==
  { Tx(st, "REF001", d, ty, "", "", "", a, "", tx, "EUR", "2024-03-31") :
      st \in {"Executed", "Cancelled", ""},
      d \in {"KKT-Abschluss", "Zinsen", "STORNO KKT-Abschluss"},
      ty \in {"Interest", " interest "},
      a \in {"0", "-155,04", "12,00"},
      tx \in {"", "0,00", "185,98", "-3,10"} }

\* dividend and distribution rows without an isin, of every status, with
\* and without a reversal marker, tax and currency
DividendRows ==
  { Tx(st, "REF001", d, ty, "", "", "", a, "", tx, cur, "2024-01-08") :
      st \in {"Executed", "Cancelled"},
      d \in {"Test Stock", "STORNO Test Stock"},
      ty \in {"Dividend", "Distribution", " DIVIDEND "},
      a \in {"0", "3,20", "-3,20"},
      tx \in {"", "0,80"},
      cur \in {"EUR", "USD", ""} }

\* symbol maps for rows without an isin: the usual one, an empty one, and
\* one that holds an entry under the empty string
DividendMaps ==
  SymbolMaps \cup {<<>>, ("" :> Resolved("4COP", <<"GR">>, "XETR:4COP",
                                          <<>>, <<>>))}

\* rows as the parser delivers them (fields trimmed): every kind of type
\* and status with and without an isin
ExtractRows ==
  { Tx(st, "REF001", "Test Stock", ty, i, "10", "25,50", "12,00", "0,99", "0,00", "EUR", "2024-01-15") :
      st \in {"Executed", "Cancelled", "Failed", ""},
      ty \in {"Buy", "Sell", "Savings Plan", "Dividend", "Distribution",
              "Interest", "Deposit", "Fee", "Security transfer"},
      i \in {"", IsinA, IsinB} }

Rows == TypeRows \cup IsinRows \cup InterestRows \cup EdgeRows

\* an executed trade row
Trade(type, isin, shares, price, fee, date) ==
  Tx("Executed", "REF001", "Test Stock", type, isin, shares, price,
     "-255,00", fee, "0,00", "EUR", date)

Buy10at5 == Trade("Buy", IsinA, "10", "5,00", "0,99", "2024-01-01")
Buy20at6 == Trade("Buy", IsinA, "20", "6,00", "0,99", "2024-01-02")
Buy30at7 == Trade("Buy", IsinA, "30", "7,00", "0,99", "2024-01-03")
Sell15at8 == Trade("Sell", IsinA, "15", "8,00", "0,99", "2024-01-04")
OtherBuy == Trade("Savings Plan", IsinB, "2,5", "8,50", "", "2024-01-05")
FreeBuy == Trade("Buy", IsinA, "4", "", "", "2024-01-06")
DepositRow ==
  Tx("Executed", "REF001", "Einzahlung", "Deposit", "", "", "", "100,00",
     "", "", "EUR", "2024-01-07")
DividendRow ==
  Tx("Executed", "REF001", "Test Stock", "Dividend", IsinA, "", "", "3,20",
     "", "0,80", "EUR", "2024-01-08")

\* rows for the aggregator: runs of trades of two symbols and two
\* directions, broken by cash and dividend records
AggRows ==
  {Buy10at5, FreeBuy, Sell15at8, OtherBuy, DepositRow, DividendRow}

\* the Aggregated Mode example of the README and of the test
\* 'should separate buy and sell sequences'
ReadmeExample ==
  << Buy10at5, Buy20at6, Buy30at7, Sell15at8,
     Trade("Sell", IsinA, "25", "9,00", "0,99", "2024-01-05"),
     Trade("Buy", IsinA, "10", "65,00", "0,99", "2024-01-06"),
     Trade("Sell", IsinA, "20", "8,50", "0,99", "2024-01-07") >>

\* the example of the test 'should aggregate consecutive buy transactions'
ThreeBuys == <<Buy10at5, Buy20at6, Buy30at7>>

AggExamples == {ReadmeExample, ThreeBuys}

\* rows that precede the row under study: one that becomes a record, one
\* that is skipped, one that is an error
SkippedRow ==
  Tx("Cancelled", "REF001", "Test Stock", "Buy", IsinA, "10", "25,50",
     "-255,00", "0,99", "0,00", "EUR", "2024-01-10")
ErrorRow ==
  Tx("Executed", "REF001", "Test Stock", "Sell", "", "10", "25,50",
     "255,00", "0,99", "0,00", "EUR", "2024-01-11")

ContextRows == {Buy10at5, SkippedRow, ErrorRow}

\* one row of every kind of outcome: a record, two Wealthfolio records, a
\* record on the cash symbol, an error of each kind, a skip of each stage
SettlementRow ==
  Tx("Executed", "REF001", "KKT-Abschluss", "Interest", "", "", "", "-155,04", "0,00", "185,98", "EUR", "2024-03-31")
StornoRow ==
  Tx("Executed", "REF001", "STORNO Test Stock", "Buy", IsinA, "10", "25,50", "-255,00", "0,99", "0,00", "EUR", "2024-01-12")
UnresolvedRow ==
  Tx("Executed", "REF001", "Test Stock", "Sell", IsinAbsent, "10", "25,50", "255,00", "0,99", "0,00", "EUR", "2024-01-13")
UnsupportedRow ==
  Tx("Executed", "REF001", "Test Stock", "Security transfer", IsinA, "10", "25,50", "0", "", "", "EUR", "2024-01-14")

IndepRows ==
  {Buy10at5, SettlementRow, StornoRow, ErrorRow, UnresolvedRow, SkippedRow,
   UnsupportedRow}

\* trades of one symbol with rows between them that become no record (a
\* cancelled order, a sell without isin, a security transfer) or a record
\* that is not a trade
MergeRows ==
  {Buy10at5, Buy20at6, Sell15at8, SkippedRow, ErrorRow, UnsupportedRow,
   DepositRow}

(***************************************************************************)
(* State                                                                   *)
(***************************************************************************)
VARIABLES
  transactions,   \* the parsed rows handed to the converters
  symbolMap,      \* Map<string, ResolvedSymbol | null>
  tv,             \* the call of convertTransactions and what it returned
  wf,             \* the call of convertToWealthfolio and what it returned
  figi,           \* the call of resolveIsinToTicker in flight
  handle          \* the position of handleConvert and its uniqueIsins

vars == <<transactions, symbolMap, tv, wf, figi, handle>>

\* handleConvert is past the resolution of the identifiers: the symbol map
\* is the one the converters are given
Resolving == [step |-> "converting", uniqueIsins |-> <<>>]

\* no lookup in flight: the symbol map is the one the converters are given
NoLookup ==
  [done |-> TRUE, isin |-> "", tried |-> 0, queried |-> <<>>,
   pc |-> "fetch", status |-> 0]

NotCalled ==
  [done |-> FALSE, mode |-> "detailed", result |-> <<>>, origin |-> <<>>,
   transactions |-> <<>>, groups |-> <<>>, errors |-> <<>>,
   skipped |-> <<>>, errorOrigin |-> <<>>, skippedOrigin |-> <<>>]

\* transactions.forEach(callback): result, errors and skipped after the
\* first k rows; origin[j] is the index of the row that pushed result[j],
\* errorOrigin[j] and skippedOrigin[j] the index of the row that pushed
\* errors[j] and skipped[j] (history values, not program state)
Pushed(acc, out, index) ==
  [result |-> acc.result \o out.records,
   origin |-> acc.origin \o [j \in 1..Len(out.records) |-> index],
   errors |-> acc.errors \o out.errors,
   skipped |-> acc.skipped \o out.skipped,
   errorOrigin |-> acc.errorOrigin \o [j \in 1..Len(out.errors) |-> index],
   skippedOrigin |->
     acc.skippedOrigin \o [j \in 1..Len(out.skipped) |-> index]]

NothingPushed ==
  [result |-> <<>>, origin |-> <<>>, errors |-> <<>>, skipped |-> <<>>,
   errorOrigin |-> <<>>, skippedOrigin |-> <<>>]

\* mutant of TvForEach: the loop stops at the first row that is an error
RECURSIVE MutTvForEachAbort(_, _, _)
MutTvForEachAbort(rows, map, k) ==
  IF k = 0 THEN NothingPushed
  ELSE IF MutTvForEachAbort(rows, map, k - 1).errors # <<>>
    THEN MutTvForEachAbort(rows, map, k - 1)
  ELSE Pushed(MutTvForEachAbort(rows, map, k - 1),
              TvRow(rows[k], k - 1, map), k - 1)

RECURSIVE TvForEach(_, _, _)
TvForEach(rows, map, k) ==
  IF k = 0 THEN NothingPushed
  ELSE Pushed(TvForEach(rows, map, k - 1), TvRow(rows[k], k - 1, map), k - 1)

RECURSIVE WfForEach(_, _, _)
WfForEach(rows, map, k) ==
  IF k = 0 THEN NothingPushed
  ELSE Pushed(WfForEach(rows, map, k - 1), WfRow(rows[k], k - 1, map), k - 1)

\* mutant of TvReturned: a row that pushed no record closes the group
MutTvReturnedRowClosesGroup(acc, mode) ==
  LET RECURSIVE Split(_)
      Split(k) ==
        IF k = 0 THEN [out |-> <<>>, seg |-> <<>>]
        ELSE LET p == Split(k - 1)
             IN  IF k > 1 /\ acc.origin[k] > acc.origin[k - 1] + 1
                   THEN [out |-> p.out \o aggregateTransactions(p.seg),
                         seg |-> <<acc.result[k]>>]
                 ELSE [out |-> p.out, seg |-> Append(p.seg, acc.result[k])]
      last == Split(Len(acc.result))
  IN  [done |-> TRUE, mode |-> mode, result |-> acc.result,
       origin |-> acc.origin,
       transactions |-> IF mode = "aggregated"
                          THEN last.out \o aggregateTransactions(last.seg)
                          ELSE acc.result,
       groups |-> IF mode = "aggregated"
                    THEN TvAggregateRun(acc.result).groups ELSE <<>>,
       errors |-> acc.errors, skipped |-> acc.skipped,
       errorOrigin |-> acc.errorOrigin, skippedOrigin |-> acc.skippedOrigin]

\* the ConversionResult returned after the loop over the rows acc
TvReturned(acc, mode) ==
  [done |-> TRUE, mode |-> mode, result |-> acc.result,
   origin |-> acc.origin,
   transactions |-> IF mode = "aggregated"
                      THEN aggregateTransactions(acc.result)
                      ELSE acc.result,
   groups |-> IF mode = "aggregated"
                THEN TvAggregateRun(acc.result).groups ELSE <<>>,
   errors |-> acc.errors, skipped |-> acc.skipped,
   errorOrigin |-> acc.errorOrigin, skippedOrigin |-> acc.skippedOrigin]

convertTransactions(rows, map, mode) ==
  TvReturned(TvForEach(rows, map, Len(rows)), mode)

WfReturned(acc, mode) ==
  [done |-> TRUE, mode |-> mode, result |-> acc.result,
   origin |-> acc.origin,
   transactions |-> IF mode = "aggregated"
                      THEN WfAggregateTransactions(acc.result)
                      ELSE acc.result,
   groups |-> IF mode = "aggregated"
                THEN WfAggregateRun(acc.result).groups ELSE <<>>,
   errors |-> acc.errors, skipped |-> acc.skipped,
   errorOrigin |-> acc.errorOrigin, skippedOrigin |-> acc.skippedOrigin]

convertToWealthfolio(rows, map, mode) ==
  WfReturned(WfForEach(rows, map, Len(rows)), mode)

\* a row of S at the end of a context of at most n rows, or a context alone
InitOver(S, n) ==
  /\ transactions \in
       {ctx \o <<r>> : ctx \in SeqsUpTo(ContextRows, n), r \in S}
         \cup SeqsUpTo(ContextRows, n)
  /\ symbolMap \in SymbolMaps
  /\ tv = NotCalled
  /\ wf = NotCalled
  /\ figi = NoLookup
  /\ handle = Resolving

Init == InitOver(Rows, MaxContext)

InitStatus == InitOver(StatusRows, MaxContext)

InitTypes == InitOver(TypeMapRows, MaxContext)

InitCash == InitOver(CashRows, MaxContext)

InitSettlement == InitOver(SettlementRows, MaxContext)

InitNumbers == InitOver(NumberRows, MaxContext)

InitSymbols ==
  /\ transactions \in
       {ctx \o <<r>> : ctx \in SeqsUpTo(ContextRows, MaxContext),
                       r \in {Buy10at5, DividendRow}}
  /\ symbolMap \in SymbolVariants
  /\ tv = NotCalled
  /\ wf = NotCalled
  /\ figi = NoLookup
  /\ handle = Resolving

InitDividend ==
  /\ transactions \in
       {ctx \o <<r>> : ctx \in SeqsUpTo(ContextRows, MaxContext),
                       r \in DividendRows}
  /\ symbolMap \in DividendMaps
  /\ tv = NotCalled
  /\ wf = NotCalled
  /\ figi = NoLookup
  /\ handle = Resolving

InitAgg ==
  /\ transactions \in SeqsUpTo(AggRows, MaxAggRows) \cup AggExamples
  /\ symbolMap \in SymbolMaps
  /\ tv = NotCalled
  /\ wf = NotCalled
  /\ figi = NoLookup
  /\ handle = Resolving

InitMerge ==
  /\ transactions \in SeqsUpTo(MergeRows, MaxAggRows)
  /\ symbolMap \in SymbolMaps
  /\ tv = NotCalled
  /\ wf = NotCalled
  /\ figi = NoLookup
  /\ handle = Resolving

InitIndep ==
  /\ transactions \in SeqsUpTo(IndepRows, MaxIndepRows)
  /\ symbolMap \in SymbolMaps
  /\ tv = NotCalled
  /\ wf = NotCalled
  /\ figi = NoLookup
  /\ handle = Resolving

ConvertTransactions ==
  /\ ~tv.done
  /\ \E mode \in ConversionModes :
       tv' = convertTransactions(transactions, symbolMap, mode)
  /\ UNCHANGED <<transactions, symbolMap, wf, figi, handle>>

ConvertToWealthfolio ==
  /\ ~wf.done
  /\ \E mode \in ConversionModes :
       wf' = convertToWealthfolio(transactions, symbolMap, mode)
  /\ UNCHANGED <<transactions, symbolMap, tv, figi, handle>>

Next == ConvertTransactions \/ ConvertToWealthfolio

\* one pass of the loop of resolveIsinToTicker over the exchanges to try:
\* the query of the next exchange code, answered by a response that is not
\* retried, and, when it ends the lookup, the results.set(isin, resolved) of
\* resolveMultipleIsins; queried lists the codes queried so far and whether
\* each returned data, status is that of the last response (history values)
QueryOpenFigi ==
  /\ ~figi.done
  /\ figi.pc = "fetch"
  /\ \E response \in HttpResponses :
       /\ ~RateLimitedResponse(response)
       /\ LET result == Returned(response)
              exchCode == EXCHANGE_PRIORITY[figi.tried + 1]
              queried == Append(figi.queried, <<exchCode, HasData(result)>>)
          IN  IF HasData(result)
                THEN /\ symbolMap' =
                          (figi.isin :> ResolvedInstrument(figi.isin,
                                                           result.data[1],
                                                           exchCode))
                     /\ figi' = [figi EXCEPT !.done = TRUE,
                                             !.queried = queried,
                                             !.status = response.status]
              ELSE IF figi.tried + 1 = Len(EXCHANGE_PRIORITY)
                THEN /\ symbolMap' = (figi.isin :> Null)
                     /\ figi' = [figi EXCEPT !.done = TRUE,
                                             !.tried = figi.tried + 1,
                                             !.queried = queried,
                                             !.status = response.status]
              ELSE /\ symbolMap' = symbolMap
                   /\ figi' = [figi EXCEPT !.tried = figi.tried + 1,
                                           !.queried = queried,
                                           !.status = response.status]
  /\ UNCHANGED <<transactions, tv, wf, handle>>

\* queryOpenFigi: the response says the client is rate limited, and the
\* call waits before it asks again
RateLimited ==
  /\ ~figi.done
  /\ figi.pc = "fetch"
  /\ \E response \in HttpResponses :
       /\ RateLimitedResponse(response)
       /\ figi' = [figi EXCEPT !.pc = "delay", !.status = response.status]
  /\ UNCHANGED <<transactions, symbolMap, tv, wf, handle>>

\* queryOpenFigi: await delay(2000); return queryOpenFigi(isin, exchCode)
Delay ==
  /\ ~figi.done
  /\ figi.pc = "delay"
  /\ figi' = [figi EXCEPT !.pc = "fetch"]
  /\ UNCHANGED <<transactions, symbolMap, tv, wf, handle>>

\* the rows are converted once their identifiers have been looked up
NextResolve ==
  \/ QueryOpenFigi
  \/ RateLimited
  \/ Delay
  \/ figi.done /\ ConvertTransactions
  \/ figi.done /\ ConvertToWealthfolio

\* handleConvert, step 2: const uniqueIsins = extractUniqueIsins(transactions)
ExtractUniqueIsins ==
  /\ handle.step = "parsed"
  /\ handle' = [step |-> "resolving",
                uniqueIsins |-> extractUniqueIsins(transactions)]
  /\ UNCHANGED <<transactions, symbolMap, tv, wf, figi>>

\* handleConvert, step 2: the answer of /api/resolve-isin, a symbol or null
\* for each identifier asked for, is copied into the symbol map
ResolveIsins ==
  /\ handle.step = "resolving"
  /\ symbolMap' \in
       [{handle.uniqueIsins[k] : k \in 1..Len(handle.uniqueIsins)} ->
          {Resolved("4COP", <<"GR">>, "XETR:4COP", <<>>, <<>>), Null}]
  /\ handle' = [handle EXCEPT !.step = "converting"]
  /\ UNCHANGED <<transactions, tv, wf, figi>>

\* handleConvert: parse, extract and resolve, then convert
NextHandle ==
  \/ ExtractUniqueIsins
  \/ ResolveIsins
  \/ handle.step = "converting" /\ ConvertTransactions
  \/ handle.step = "converting" /\ ConvertToWealthfolio

\* the parsed rows of an uploaded file, before any identifier is resolved
InitHandle ==
  /\ transactions \in
       {ctx \o <<r>> : ctx \in SeqsUpTo(ContextRows, MaxContext),
                       r \in ExtractRows}
  /\ symbolMap = <<>>
  /\ tv = NotCalled
  /\ wf = NotCalled
  /\ figi = NoLookup
  /\ handle = [step |-> "parsed", uniqueIsins |-> <<>>]

\* a buy of an identifier that is looked up before the conversion
InitResolve ==
  /\ \E isin \in LookupIsins :
       /\ transactions = <<Trade("Buy", isin, "10", "5,00", "0,99",
                                  "2024-01-01")>>
       /\ figi = [done |-> FALSE, isin |-> isin, tried |-> 0,
                  queried |-> <<>>, pc |-> "fetch", status |-> 0]
  /\ symbolMap = <<>>
  /\ tv = NotCalled
  /\ wf = NotCalled
  /\ handle = Resolving

Spec == Init /\ [][Next]_vars

SpecStatus == InitStatus /\ [][Next]_vars

SpecTypes == InitTypes /\ [][Next]_vars

SpecCash == InitCash /\ [][Next]_vars

SpecDividend == InitDividend /\ [][Next]_vars

SpecSettlement == InitSettlement /\ [][Next]_vars

SpecNumbers == InitNumbers /\ [][Next]_vars

SpecIndep == InitIndep /\ [][Next]_vars

SpecAgg == InitAgg /\ [][Next]_vars

SpecMerge == InitMerge /\ [][Next]_vars

SpecSymbols == InitSymbols /\ [][Next]_vars

SpecResolve == InitResolve /\ [][NextResolve]_vars

\* the lookup when the timer of delay fires and the service eventually
\* answers every query with a response that is not a rate limit
SpecRetry ==
  /\ InitResolve
  /\ [][NextResolve]_vars
  /\ WF_vars(Delay)
  /\ SF_vars(QueryOpenFigi)

SpecHandle == InitHandle /\ [][NextHandle]_vars

(***************************************************************************)
(* Vocabulary of the properties, written from their statements and kept    *)
(* independent of the operators above                                      *)
(***************************************************************************)
RowIdx == 1..Len(transactions)

\* positions of the entries row i (1-based) contributed to a call's lists
RecordsOf(c, i) == {j \in 1..Len(c.origin) : c.origin[j] = i - 1}
ErrorsOf(c, i) == {j \in 1..Len(c.errors) : c.errors[j].row = i + 1}
SkippedOf(c, i) == {j \in 1..Len(c.skipped) : c.skipped[j].row = i + 1}

\* the records row i pushed, in order
RecordSeq(c, i) ==
  LET S == RecordsOf(c, i)
  IN  IF S = {} THEN <<>>
      ELSE SubSeq(c.result,
                  CHOOSE a \in S : \A b \in S : a <= b,
                  CHOOSE a \in S : \A b \in S : a >= b)

LowerHas(s, w) == Includes(ToLowerCase(s), w)

HasSkipWord(status) ==
  \E w \in {"cancelled", "canceled", "rejected", "pending", "failed"} :
    LowerHas(status, w)

AcceptedStatus(status) ==
  /\ ~HasSkipWord(status)
  /\ \/ Trim(status) = ""
     \/ \E w \in {"executed", "completed", "done"} : LowerHas(status, w)

HasReversalMarker(t) ==
  \/ LowerHas(t.description, "storno")
  \/ LowerHas(t.reference, "cancel")
  \/ LowerHas(t.reference, "storno")

NormType(t) == Trim(ToLowerCase(t.type))

AmountOf(t) == parseEuropeanNumber(t.amount)
TaxOf(t) == parseEuropeanNumber(t.tax)
CurrencyOf(t) == IF t.currency = "" THEN "EUR" ELSE t.currency

IsSettlementRow(t) ==
  /\ NormType(t) = "interest"
  /\ \/ LowerHas(t.description, "kkt")
     \/ LowerHas(t.description, "abschluss")
     \/ AmountOf(t)[1] < 0

OnlySkipped(c, i, reason) ==
  /\ RecordsOf(c, i) = {}
  /\ ErrorsOf(c, i) = {}
  /\ Cardinality(SkippedOf(c, i)) = 1
  /\ \A j \in SkippedOf(c, i) : c.skipped[j].reason = reason

OnlyRecords(c, i, n) ==
  /\ Cardinality(RecordsOf(c, i)) = n
  /\ ErrorsOf(c, i) = {}
  /\ SkippedOf(c, i) = {}

IsTvCash(rec, side, value) ==
  rec.Symbol = "$CASH" /\ rec.Side = side /\ rec.Qty = value

IsWfCash(rec, t, activityType, value) ==
  /\ rec.symbol = "$CASH-" \o CurrencyOf(t)
  /\ rec.activityType = activityType
  /\ rec.quantity = One
  /\ rec.unitPrice = value

(***************************************************************************)
(* C1: in detailed mode every input row contributes to exactly one of      *)
(* transactions, errors and skipped (one entry in errors or in skipped);   *)
(* only a Wealthfolio interest settlement pushes more than one record, and *)
(* then a TAX record followed by a FEE record.                             *)
(***************************************************************************)
ExactlyOneList(c, i) ==
  LET r == Cardinality(RecordsOf(c, i))
      e == Cardinality(ErrorsOf(c, i))
      k == Cardinality(SkippedOf(c, i))
  IN  \/ r >= 1 /\ e = 0 /\ k = 0
      \/ r = 0 /\ e = 1 /\ k = 0
      \/ r = 0 /\ e = 0 /\ k = 1

C1_RowPartition ==
  /\ (tv.done /\ tv.mode = "detailed") =>
       /\ tv.transactions = tv.result
       /\ Len(tv.errors) + Len(tv.skipped) <= Len(transactions)
       /\ \A i \in RowIdx :
            ExactlyOneList(tv, i) /\ Cardinality(RecordsOf(tv, i)) <= 1
  /\ (wf.done /\ wf.mode = "detailed") =>
       /\ wf.transactions = wf.result
       /\ Len(wf.errors) + Len(wf.skipped) <= Len(transactions)
       /\ \A i \in RowIdx :
            /\ ExactlyOneList(wf, i)
            /\ Cardinality(RecordsOf(wf, i)) > 1 =>
                 /\ IsSettlementRow(transactions[i])
                 /\ Len(RecordSeq(wf, i)) = 2
                 /\ RecordSeq(wf, i)[1].activityType = "TAX"
                 /\ RecordSeq(wf, i)[2].activityType = "FEE"

C1_Witness ==
  /\ tv.done /\ tv.mode = "detailed" /\ wf.done /\ wf.mode = "detailed"
  /\ \E i \in RowIdx :
       /\ Cardinality(RecordsOf(wf, i)) = 2
       /\ Cardinality(RecordsOf(tv, i)) = 1

(***************************************************************************)
(* C2: a row whose status contains cancelled, canceled, rejected, pending  *)
(* or failed (any case, as a substring) is in skipped with reason          *)
(* "Status: {status}" and in neither transactions nor errors, whatever its *)
(* other fields are.                                                       *)
(***************************************************************************)
C2_StatusSkipped ==
  \A c \in {tv, wf} :
    c.done =>
      \A i \in RowIdx :
        HasSkipWord(transactions[i].status) =>
          OnlySkipped(c, i, "Status: " \o transactions[i].status)

C2_Witness ==
  /\ tv.done /\ wf.done
  /\ \E i \in RowIdx :
       /\ transactions[i].status = "Order pending"
       /\ transactions[i].type = "Buy"
       /\ transactions[i].isin = ""
       /\ HasReversalMarker(transactions[i])
       /\ SkippedOf(tv, i) # {} /\ SkippedOf(wf, i) # {}

(***************************************************************************)
(* C3: a buy, sell, savings plan or sparplan row with an empty isin is in  *)
(* errors with a message containing "Missing ISIN" and in neither          *)
(* transactions nor skipped, in both converters.                           *)
(***************************************************************************)
IsTradeType(t) == NormType(t) \in {"buy", "sell", "savings plan", "sparplan"}

MissingIsinError(c, i) ==
  /\ RecordsOf(c, i) = {}
  /\ SkippedOf(c, i) = {}
  /\ Cardinality(ErrorsOf(c, i)) = 1
  /\ \A j \in ErrorsOf(c, i) : Includes(c.errors[j].error, "Missing ISIN")

\* C3 as stated: for every such row
C3_Original ==
  \A c \in {tv, wf} :
    c.done =>
      \A i \in RowIdx :
        (IsTradeType(transactions[i]) /\ transactions[i].isin = "") =>
          MissingIsinError(c, i)

\* C3 as amended: for every such row that passes the status gate and
\* carries no reversal marker
C3_MissingIsin ==
  \A c \in {tv, wf} :
    c.done =>
      \A i \in RowIdx :
        ( /\ IsTradeType(transactions[i])
          /\ transactions[i].isin = ""
          /\ AcceptedStatus(transactions[i].status)
          /\ ~HasReversalMarker(transactions[i]) ) =>
          MissingIsinError(c, i)

C3_Witness ==
  /\ tv.done /\ wf.done
  /\ \E i \in RowIdx :
       /\ transactions[i].type = " sparplan"
       /\ transactions[i].isin = ""
       /\ ErrorsOf(tv, i) # {} /\ ErrorsOf(wf, i) # {}

(***************************************************************************)
(* C4: a row that reaches symbol assignment (status gate passed, type      *)
(* mapped to buy, sell or dividend, no special-case detector fired) with a *)
(* non-empty isin that is absent from the symbol map or mapped to null is  *)
(* in errors with "Could not resolve ISIN to ticker symbol" and that isin, *)
(* pushes no record and is not in skipped, also when its shares are zero.  *)
(***************************************************************************)
Unresolved(isin) ==
  isin # "" /\ (isin \notin DOMAIN symbolMap \/ symbolMap[isin] = Null)

ReachesSymbolAssignment(t) ==
  /\ AcceptedStatus(t.status)
  /\ ~HasReversalMarker(t)
  /\ ~IsSettlementRow(t)
  /\ ToLowerCase(t.type) \notin {"fee", "taxes"}

UnresolvedError(c, i) ==
  /\ RecordsOf(c, i) = {}
  /\ SkippedOf(c, i) = {}
  /\ Cardinality(ErrorsOf(c, i)) = 1
  /\ \A j \in ErrorsOf(c, i) :
       /\ c.errors[j].error = "Could not resolve ISIN to ticker symbol"
       /\ c.errors[j].isin = transactions[i].isin

C4_Unresolved ==
  /\ tv.done =>
       \A i \in RowIdx :
         ( /\ ReachesSymbolAssignment(transactions[i])
           /\ mapTransactionType(transactions[i].type)
                \in {"Buy", "Sell", "Dividend"}
           /\ Unresolved(transactions[i].isin) ) => UnresolvedError(tv, i)
  /\ wf.done =>
       \A i \in RowIdx :
         ( /\ ReachesSymbolAssignment(transactions[i])
           /\ WfMapTransactionType(transactions[i].type)
                \in {"BUY", "SELL", "DIVIDEND"}
           /\ Unresolved(transactions[i].isin) ) => UnresolvedError(wf, i)

\* both an absent key and a null value, each with zero shares
C4_Witness ==
  /\ tv.done /\ wf.done
  /\ \E i \in RowIdx :
       /\ transactions[i].shares = "0"
       /\ transactions[i].type = "Sell"
       /\ transactions[i].isin \in {IsinNull, IsinAbsent}
       /\ ErrorsOf(tv, i) # {} /\ ErrorsOf(wf, i) # {}

(***************************************************************************)
(* C5: a row that passes the status gate and carries a reversal marker     *)
(* becomes, whatever its type, exactly one cash Deposit record of          *)
(* abs(amount) when amount is nonzero, and is skipped with "Zero amount    *)
(* STORNO transaction" when amount is zero; it is never another kind of    *)
(* record nor an errors entry.                                             *)
(***************************************************************************)
ReversalOutcome(c, i, IsDeposit(_, _, _)) ==
  LET t == transactions[i]
      a == RAbs(AmountOf(t))
  IN  IF a = Zero
        THEN OnlySkipped(c, i, "Zero amount STORNO transaction")
        ELSE /\ OnlyRecords(c, i, 1)
             /\ IsDeposit(RecordSeq(c, i)[1], t, a)

TvDeposit(rec, t, a) == IsTvCash(rec, "Deposit", a)
WfDeposit(rec, t, a) == IsWfCash(rec, t, "DEPOSIT", a)

\* C5 as stated: regardless of the nominal type
C5_Original ==
  /\ tv.done =>
       \A i \in RowIdx :
         ( /\ AcceptedStatus(transactions[i].status)
           /\ HasReversalMarker(transactions[i]) ) =>
           ReversalOutcome(tv, i, TvDeposit)
  /\ wf.done =>
       \A i \in RowIdx :
         ( /\ AcceptedStatus(transactions[i].status)
           /\ HasReversalMarker(transactions[i]) ) =>
           ReversalOutcome(wf, i, WfDeposit)

\* C5 as amended: for every type the converter's mapping table supports
C5_Reversal ==
  /\ tv.done =>
       \A i \in RowIdx :
         ( /\ AcceptedStatus(transactions[i].status)
           /\ HasReversalMarker(transactions[i])
           /\ mapTransactionType(transactions[i].type) # "null" ) =>
           ReversalOutcome(tv, i, TvDeposit)
  /\ wf.done =>
       \A i \in RowIdx :
         ( /\ AcceptedStatus(transactions[i].status)
           /\ HasReversalMarker(transactions[i])
           /\ WfMapTransactionType(transactions[i].type) # "null" ) =>
           ReversalOutcome(wf, i, WfDeposit)

\* a marker in the reference only, on a trade row with an empty isin
C5_Witness ==
  /\ tv.done /\ wf.done
  /\ \E i \in RowIdx :
       /\ transactions[i].reference = "CANCEL-REF001"
       /\ transactions[i].type = "Buy"
       /\ transactions[i].status = "Executed"
       /\ AmountOf(transactions[i]) # Zero
       /\ RecordsOf(tv, i) # {} /\ RecordsOf(wf, i) # {}

(***************************************************************************)
(* C6: in the Wealthfolio converter a non-reversal interest settlement     *)
(* (type interest; description contains kkt or abschluss, or amount < 0)   *)
(* pushes a TAX record of abs(tax) if that is positive, then a FEE record  *)
(* of abs(amount) if that is positive, each with quantity 1 on             *)
(* "$CASH-{currency}", and no INTEREST record; with both zero it pushes    *)
(* nothing and is skipped with "Zero tax/fee amount in interest            *)
(* settlement".  amount=-155.04, tax=185.98 gives [TAX 185.98, FEE 155.04].*)
(***************************************************************************)
SettlementOutcome(i) ==
  LET t == transactions[i]
      tax == RAbs(TaxOf(t))
      amount == RAbs(AmountOf(t))
      recs == RecordSeq(wf, i)
      n == (IF tax # Zero THEN 1 ELSE 0) + (IF amount # Zero THEN 1 ELSE 0)
  IN  /\ Len(recs) = n
      /\ ErrorsOf(wf, i) = {}
      /\ tax # Zero => IsWfCash(recs[1], t, "TAX", tax)
      /\ amount # Zero => IsWfCash(recs[n], t, "FEE", amount)
      /\ IF n = 0
           THEN OnlySkipped(wf, i,
                            "Zero tax/fee amount in interest settlement")
           ELSE SkippedOf(wf, i) = {}
      /\ (t.amount = "-155,04" /\ t.tax = "185,98") =>
           /\ Len(recs) = 2
           /\ recs[1].activityType = "TAX" /\ recs[1].unitPrice = <<9299, 50>>
           /\ recs[2].activityType = "FEE" /\ recs[2].unitPrice = <<3876, 25>>

\* C6 as stated: for every non-reversal interest settlement row
C6_Original ==
  wf.done =>
    \A i \in RowIdx :
      ( /\ IsSettlementRow(transactions[i])
        /\ ~HasReversalMarker(transactions[i]) ) => SettlementOutcome(i)

\* C6 as amended: for every such row that passes the status gate
C6_Settlement ==
  wf.done =>
    \A i \in RowIdx :
      ( /\ IsSettlementRow(transactions[i])
        /\ ~HasReversalMarker(transactions[i])
        /\ AcceptedStatus(transactions[i].status) ) => SettlementOutcome(i)

C6_Witness ==
  /\ wf.done
  /\ \E i \in RowIdx :
       /\ transactions[i].description = "KKT-Abschluss"
       /\ transactions[i].amount = "-155,04"
       /\ transactions[i].tax = "185,98"
       /\ transactions[i].status = "Executed"
       /\ Len(RecordSeq(wf, i)) = 2

(***************************************************************************)
(* C10: a row with accepted status, no reversal marker and nonzero amount  *)
(* whose type is tax, taxes, fee (negative amount) or "taxes and fees"     *)
(* becomes a record: Side "Taxes and fees" in TradingView; TAX for tax and *)
(* taxes, FEE for fee and "taxes and fees" in Wealthfolio, with value      *)
(* abs(amount) on the cash pseudo-symbol.                                  *)
(***************************************************************************)
IsTaxFeeRow(t) ==
  /\ AcceptedStatus(t.status)
  /\ ~HasReversalMarker(t)
  /\ AmountOf(t) # Zero
  /\ \/ NormType(t) \in {"tax", "taxes", "taxes and fees"}
     \/ NormType(t) = "fee" /\ AmountOf(t)[1] < 0

C10_TaxFeeRecords ==
  /\ tv.done =>
       \A i \in RowIdx :
         IsTaxFeeRow(transactions[i]) =>
           /\ OnlyRecords(tv, i, 1)
           /\ IsTvCash(RecordSeq(tv, i)[1], "Taxes and fees",
                       RAbs(AmountOf(transactions[i])))
  /\ wf.done =>
       \A i \in RowIdx :
         IsTaxFeeRow(transactions[i]) =>
           /\ OnlyRecords(wf, i, 1)
           /\ IsWfCash(RecordSeq(wf, i)[1], transactions[i],
                       IF NormType(transactions[i]) \in {"tax", "taxes"}
                         THEN "TAX" ELSE "FEE",
                       RAbs(AmountOf(transactions[i])))

(***************************************************************************)
(* Vocabulary of the aggregation properties: a record of either format as  *)
(* (symbol, side, quantity, price, fee, time), numeric fields by value     *)
(***************************************************************************)
TvView(r) ==
  [symbol |-> r.Symbol, side |-> r.Side, qty |-> FieldNum(r.Qty),
   price |-> FieldNum(r.FillPrice), fee |-> FieldNum(r.Commission),
   time |-> r.ClosingTime]

WfView(r) ==
  [symbol |-> r.symbol, side |-> r.activityType,
   qty |-> FieldNum(r.quantity), price |-> FieldNum(r.unitPrice),
   fee |-> FieldNum(r.fee), time |-> r.date]

TvViews(recs) == [j \in 1..Len(recs) |-> TvView(recs[j])]
WfViews(recs) == [j \in 1..Len(recs) |-> WfView(recs[j])]

IsTradeView(v) == v.side \in {"Buy", "Sell", "BUY", "SELL"}

SameGroup(v, w) ==
  IsTradeView(v) /\ IsTradeView(w) /\ v.symbol = w.symbol /\ v.side = w.side

\* sums over the first k records
RECURSIVE TotalQty(_, _)
TotalQty(vs, k) == IF k = 0 THEN Zero ELSE RAdd(TotalQty(vs, k - 1), vs[k].qty)

RECURSIVE SumQty(_, _, _)
SumQty(vs, lo, hi) ==
  IF hi < lo THEN Zero ELSE RAdd(SumQty(vs, lo, hi - 1), vs[hi].qty)

RECURSIVE SumValue(_, _, _)
SumValue(vs, lo, hi) ==
  IF hi < lo THEN Zero
  ELSE RAdd(SumValue(vs, lo, hi - 1), RMul(vs[hi].qty, vs[hi].price))

RECURSIVE SumFee(_, _, _)
SumFee(vs, lo, hi) ==
  IF hi < lo THEN Zero ELSE RAdd(SumFee(vs, lo, hi - 1), vs[hi].fee)

\* lo..hi is a maximal run of consecutive trade records of one symbol and
\* one direction
MaximalRun(vs, lo, hi) ==
  /\ lo <= hi
  /\ \A j \in lo..hi : SameGroup(vs[lo], vs[j])
  /\ lo = 1 \/ ~SameGroup(vs[lo - 1], vs[lo])
  /\ hi = Len(vs) \/ ~SameGroup(vs[hi], vs[hi + 1])

\* every emitted quantity is positive, so the output record that follows
\* the records made of in[1..k] is the one at which the running quantity
\* of the output equals that of in[1..k]
StartsAfter(in, out, k, p) ==
  p \in 1..Len(out) /\ TotalQty(out, p - 1) = TotalQty(in, k)

Aggregated(c) == c.done /\ c.mode = "aggregated"

(***************************************************************************)
(* C7: in aggregated mode every maximal run of two or more consecutive     *)
(* buy/sell records of one symbol and direction is replaced by one record: *)
(* quantity the sum, price sum(quantity*price)/sum(quantity), fee the sum, *)
(* timestamp that of the last record, symbol and direction the run's; a    *)
(* run of one is output unchanged.  Buys 10@5, 20@6, 30@7 give 60 at       *)
(* 380/60.                                                                 *)
(***************************************************************************)
RunsMerged(c, in, out) ==
  \A lo \in 1..Len(in) : \A hi \in lo..Len(in) :
    MaximalRun(in, lo, hi) =>
      \E p \in 1..Len(out) :
        /\ StartsAfter(in, out, lo - 1, p)
        /\ IF lo = hi
             THEN c.transactions[p] = c.result[lo]
             ELSE out[p] =
                    [symbol |-> in[lo].symbol, side |-> in[lo].side,
                     qty |-> SumQty(in, lo, hi),
                     price |-> RDiv(SumValue(in, lo, hi), SumQty(in, lo, hi)),
                     fee |-> SumFee(in, lo, hi),
                     time |-> in[hi].time]

C7_RunsMerged ==
  /\ Aggregated(tv) =>
       /\ RunsMerged(tv, TvViews(tv.result), TvViews(tv.transactions))
       /\ transactions = ThreeBuys =>
            /\ Len(tv.transactions) = 1
            /\ TvView(tv.transactions[1]).qty = <<60, 1>>
            /\ TvView(tv.transactions[1]).price = Rat(380, 60)
  /\ Aggregated(wf) =>
       /\ RunsMerged(wf, WfViews(wf.result), WfViews(wf.transactions))
       /\ transactions = ThreeBuys =>
            /\ Len(wf.transactions) = 1
            /\ WfView(wf.transactions[1]).qty = <<60, 1>>
            /\ WfView(wf.transactions[1]).price = Rat(380, 60)

C7_Witness ==
  /\ Aggregated(tv) /\ Aggregated(wf)
  /\ transactions = ThreeBuys
  /\ Len(tv.result) = 3 /\ Len(tv.transactions) = 1
  /\ Len(wf.result) = 3 /\ Len(wf.transactions) = 1

(***************************************************************************)
(* C8: aggregation never merges across a non-trade record: the record is   *)
(* output unchanged, with everything before it output before it; Buy,      *)
(* Deposit, Buy of one symbol gives 3 records, not 1.                      *)
(***************************************************************************)
NonTradeKept(c, in, out) ==
  /\ \A k \in 1..Len(in) :
       ~IsTradeView(in[k]) =>
         \E p \in 1..Len(out) :
           /\ StartsAfter(in, out, k - 1, p)
           /\ c.transactions[p] = c.result[k]
  /\ ( /\ Len(in) = 3
       /\ SameGroup(in[1], in[3])
       /\ ~IsTradeView(in[2]) ) =>
       c.transactions = c.result

C8_NoMergeAcrossNonTrade ==
  /\ Aggregated(tv) =>
       NonTradeKept(tv, TvViews(tv.result), TvViews(tv.transactions))
  /\ Aggregated(wf) =>
       NonTradeKept(wf, WfViews(wf.result), WfViews(wf.transactions))

C8_Witness ==
  /\ Aggregated(tv) /\ Aggregated(wf)
  /\ transactions = <<Buy10at5, DepositRow, FreeBuy>>
  /\ Len(tv.transactions) = 3 /\ Len(wf.transactions) = 3

(***************************************************************************)
(* C9: only adjacent records are grouped: a change of symbol or direction  *)
(* between two consecutive trade records closes the group, so separate     *)
(* runs of one (symbol, direction) stay separate.  Buy A, Buy B, Buy A     *)
(* gives 3 records; Buy,Buy,Buy,Sell,Sell,Buy,Sell of one symbol gives 4   *)
(* records of 60, 40, 10, 20.                                              *)
(***************************************************************************)
GroupClosedOnChange(in, out) ==
  \A k \in 1..(Len(in) - 1) :
    ( /\ IsTradeView(in[k]) /\ IsTradeView(in[k + 1])
      /\ ~SameGroup(in[k], in[k + 1]) ) =>
      \E p \in 2..Len(out) :
        /\ StartsAfter(in, out, k, p)
        /\ SameGroup(out[p - 1], in[k])
        /\ SameGroup(out[p], in[k + 1])

Quantities(vs) == [j \in 1..Len(vs) |-> vs[j].qty]

C9_AdjacentOnly ==
  /\ Aggregated(tv) =>
       /\ GroupClosedOnChange(TvViews(tv.result), TvViews(tv.transactions))
       /\ transactions = <<Buy10at5, OtherBuy, FreeBuy>> =>
            Len(tv.transactions) = 3
       /\ transactions = ReadmeExample =>
            Quantities(TvViews(tv.transactions))
              = << <<60, 1>>, <<40, 1>>, <<10, 1>>, <<20, 1>> >>
  /\ Aggregated(wf) =>
       /\ GroupClosedOnChange(WfViews(wf.result), WfViews(wf.transactions))
       /\ transactions = <<Buy10at5, OtherBuy, FreeBuy>> =>
            Len(wf.transactions) = 3
       /\ transactions = ReadmeExample =>
            Quantities(WfViews(wf.transactions))
              = << <<60, 1>>, <<40, 1>>, <<10, 1>>, <<20, 1>> >>

C9_Witness ==
  /\ Aggregated(tv) /\ Aggregated(wf)
  /\ transactions = ReadmeExample
  /\ Len(tv.result) = 7 /\ Len(tv.transactions) = 4
  /\ Len(wf.result) = 7 /\ Len(wf.transactions) = 4
(***************************************************************************)
(* C11: type mapping is case-insensitive and trimmed, takes an exact table *)
(* match first and otherwise the first table key, in table order, that the *)
(* type contains; a row that passes the status gate and whose type is an   *)
(* unsupported kind or matches no table key is skipped with "Transaction   *)
(* type not supported" and gives no record and no error.  "taxes and fees" *)
(* maps by its own entry, not by the key "taxes" it contains.              *)
(***************************************************************************)
MinOf(S) == CHOOSE a \in S : \A b \in S : a <= b

\* the table entry the statement selects for a type, "null" when none
Selected(table, t) ==
  LET exact == {k \in 1..Len(table) : table[k][1] = NormType(t)}
      contained == {k \in 1..Len(table) : Includes(NormType(t), table[k][1])}
  IN  IF exact # {} THEN table[MinOf(exact)][2]
      ELSE IF contained # {} THEN table[MinOf(contained)][2]
      ELSE "null"

TypeOutcome(c, i, table, mapped) ==
  c.done =>
    /\ mapped = Selected(table, transactions[i])
    /\ ( /\ AcceptedStatus(transactions[i].status)
         /\ Selected(table, transactions[i]) = "null" ) =>
         OnlySkipped(c, i, "Transaction type not supported")

C11_TypeMapping ==
  /\ WfMapTransactionType("taxes and fees") = "FEE"
  /\ \A i \in RowIdx :
       /\ TypeOutcome(tv, i, TYPE_MAPPING,
                      mapTransactionType(transactions[i].type))
       /\ TypeOutcome(wf, i, WfTYPE_MAPPING,
                      WfMapTransactionType(transactions[i].type))

\* the same, for types that are not the name of an inherited property
C11_OwnKeys ==
  /\ WfMapTransactionType("taxes and fees") = "FEE"
  /\ \A i \in RowIdx :
       NormType(transactions[i]) \notin {"constructor", "__proto__"} =>
         /\ TypeOutcome(tv, i, TYPE_MAPPING,
                        mapTransactionType(transactions[i].type))
         /\ TypeOutcome(wf, i, WfTYPE_MAPPING,
                        WfMapTransactionType(transactions[i].type))

(***************************************************************************)
(* C12: a plain interest row (type interest, not a settlement, not a       *)
(* reversal, accepted status, nonzero amount) is emitted against the cash  *)
(* pseudo-symbol whatever its isin and the symbol map are: INTEREST with   *)
(* quantity 1 and unit price abs(amount) on "$CASH-{currency}" in          *)
(* Wealthfolio, Dividend on "$CASH" in TradingView; never an error.        *)
(***************************************************************************)
IsPlainInterest(t) ==
  /\ NormType(t) = "interest"
  /\ ~IsSettlementRow(t)
  /\ ~HasReversalMarker(t)
  /\ AcceptedStatus(t.status)
  /\ AmountOf(t) # Zero

\* the Wealthfolio half of C12
C12_Wealthfolio ==
  wf.done =>
    \A i \in RowIdx :
      IsPlainInterest(transactions[i]) =>
        /\ OnlyRecords(wf, i, 1)
        /\ IsWfCash(RecordSeq(wf, i)[1], transactions[i], "INTEREST",
                    RAbs(AmountOf(transactions[i])))

\* the TradingView half of C12
C12_TradingView ==
  tv.done =>
    \A i \in RowIdx :
      IsPlainInterest(transactions[i]) =>
        /\ OnlyRecords(tv, i, 1)
        /\ IsTvCash(RecordSeq(tv, i)[1], "Dividend",
                    RAbs(AmountOf(transactions[i])))

C12_PlainInterest == C12_Wealthfolio /\ C12_TradingView

(***************************************************************************)
(* C13: the conversion is total and row-independent.  Every row of the     *)
(* input is classified, whatever became of the rows before it, and in      *)
(* detailed mode the entries of row i are those of any other input that    *)
(* has the same row at the same index under the same symbol map.           *)
(***************************************************************************)
\* what row i contributed to a result: its records, errors and skips
Entries(c, i) ==
  [records |-> RecordSeq(c, i),
   errors |-> {c.errors[j] : j \in ErrorsOf(c, i)},
   skipped |-> {c.skipped[j] : j \in SkippedOf(c, i)}]

\* the input of i rows that keeps row i and has an error row everywhere else
OnlyRow(i) == [j \in 1..i |-> IF j = i THEN transactions[i] ELSE ErrorRow]

Classified(c, i) ==
  RecordsOf(c, i) # {} \/ ErrorsOf(c, i) # {} \/ SkippedOf(c, i) # {}

C13_RowIndependence ==
  /\ tv.done =>
       \A i \in RowIdx :
         /\ Classified(tv, i)
         /\ tv.mode = "detailed" =>
              Entries(tv, i)
                = Entries(convertTransactions(OnlyRow(i), symbolMap,
                                              "detailed"), i)
  /\ wf.done =>
       \A i \in RowIdx :
         /\ Classified(wf, i)
         /\ wf.mode = "detailed" =>
              Entries(wf, i)
                = Entries(convertToWealthfolio(OnlyRow(i), symbolMap,
                                               "detailed"), i)

\* a record pushed for a row that follows an error row and a skipped row
C13_Witness ==
  /\ tv.done /\ tv.mode = "detailed" /\ wf.done /\ wf.mode = "detailed"
  /\ \E i, j \in RowIdx :
       /\ i < j
       /\ ErrorsOf(tv, i) # {} /\ ErrorsOf(wf, i) # {}
       /\ RecordsOf(tv, j) # {} /\ Cardinality(RecordsOf(wf, j)) = 2

(***************************************************************************)
(* C14: symbol derivation treats an empty validated symbol like an absent  *)
(* one.  Every record of a row whose isin resolves carries, for            *)
(* TradingView, tradingViewSymbol when present and non-empty and otherwise *)
(* fullSymbol, and for Wealthfolio, yahooSymbol when present and non-empty *)
(* and otherwise ticker + the suffix of exchCode in the seven-entry table, *)
(* ".DE" for every other code.                                             *)
(***************************************************************************)
Validated(field) == field # <<>> /\ field # <<"">>

SuffixOf(exchCode) ==
  CASE exchCode = <<"GR">> -> ".DE" [] exchCode = <<"GF">> -> ".F"
    [] exchCode = <<"GM">> -> ".MU" [] exchCode = <<"GT">> -> ".DE"
    [] exchCode = <<"GS">> -> ".SG" [] exchCode = <<"GH">> -> ".HM"
    [] exchCode = <<"QT">> -> ".DE" [] OTHER -> ".DE"

ResolvedRows ==
  {i \in RowIdx : /\ transactions[i].isin \in DOMAIN symbolMap
                  /\ symbolMap[transactions[i].isin] # Null}

\* the TradingView half of C14
C14_TradingViewSymbol ==
  tv.done =>
    \A i \in ResolvedRows :
      LET resolved == symbolMap[transactions[i].isin]
      IN  \A j \in RecordsOf(tv, i) :
            tv.result[j].Symbol
              = IF Validated(resolved.tradingViewSymbol)
                  THEN resolved.tradingViewSymbol[1]
                  ELSE resolved.fullSymbol

\* the Wealthfolio half of C14, for the codes the claim's default covers
WealthfolioSymbol(codes) ==
  wf.done =>
    \A i \in ResolvedRows :
      LET resolved == symbolMap[transactions[i].isin]
      IN  resolved.exchCode \in codes =>
            \A j \in RecordsOf(wf, i) :
              wf.result[j].symbol
                = IF Validated(resolved.yahooSymbol)
                    THEN resolved.yahooSymbol[1]
                    ELSE resolved.ticker \o SuffixOf(resolved.exchCode)

\* C14 for every exchange code that Object.prototype does not name
C14_OwnCodes ==
  WealthfolioSymbol(ExchCodes \ {<<"constructor">>, <<"__proto__">>})

C14_SymbolDerivation == C14_TradingViewSymbol /\ WealthfolioSymbol(ExchCodes)

(***************************************************************************)
(* C15: exchange routing in resolveIsinToTicker.  An instrument whose      *)
(* securityType or securityType2 is ETP, ETN or ETC or contains            *)
(* certificate or warrant, or whose marketSector contains "commodity", in  *)
(* any case of the letters, resolves to exchange SWB with exchCode GS and  *)
(* fullSymbol "SWB:{ticker}", whichever exchange code returned the data    *)
(* and whatever the ISIN prefix, the ETF rule notwithstanding.             *)
(***************************************************************************)
HasWord(field, words) ==
  field # <<>> /\ \E w \in words : LowerHas(field[1], w)

IsKind(field, kinds) == field # <<>> /\ ToLowerCase(field[1]) \in kinds

IsStructured(resolved) ==
  \/ IsKind(resolved.securityType, {"etp", "etn", "etc"})
  \/ IsKind(resolved.securityType2, {"etp", "etn", "etc"})
  \/ HasWord(resolved.securityType, {"certificate", "warrant"})
  \/ HasWord(resolved.securityType2, {"certificate", "warrant"})
  \/ HasWord(resolved.marketSector, {"commodity"})

\* the instrument a finished lookup found, Null when it found none
Found == IF figi.done /\ figi.isin \in DOMAIN symbolMap
           THEN symbolMap[figi.isin] ELSE Null

C15_StructuredToSWB ==
  (Found # Null /\ IsStructured(Found)) =>
    /\ Found.exchange = "SWB"
    /\ Found.exchCode = <<"GS">>
    /\ Found.fullSymbol = "SWB:" \o Found.ticker
    /\ tv.done => \A j \in RecordsOf(tv, 1) : tv.result[j].Symbol = "SWB:4COP"

\* an ETF that is also a warrant, with an Irish identifier, found on the
\* fifth exchange tried and converted
C15_Witness ==
  /\ Found # Null /\ IsStructured(Found)
  /\ IsKind(Found.securityType, {"etf"})
  /\ figi.isin = IsinA /\ figi.tried = 4
  /\ tv.done /\ RecordsOf(tv, 1) # {}

(***************************************************************************)
(* C16: parseEuropeanNumber disambiguates the locale without a flag.       *)
(* "1.234,56" and "1,234.56" give 1234.56, "1.000" gives 1000, "25,50"     *)
(* gives 25.5, empty or blank input gives 0, an input whose normalized     *)
(* form is not numeric gives 0, and dots alone are thousands separators    *)
(* iff every segment after the first has exactly three characters.  The    *)
(* parsed amount of a deposit row is the value of its one cash record,     *)
(* and a row whose amount parses to 0 has none.                            *)
(***************************************************************************)
AllDigits(s) == \A k \in 1..Len(s) : IsDigit(CharAt(s, k))

\* s is digits, digits.digits, digits. or .digits
IsUnsignedNumeral(s) ==
  \/ Len(s) > 0 /\ AllDigits(s)
  \/ \E k \in 1..Len(s) :
       /\ CharAt(s, k) = "."
       /\ AllDigits(SubSeq(s, 1, k - 1))
       /\ AllDigits(SubSeq(s, k + 1, Len(s)))
       /\ Len(s) > 1

IsNumeric(s) ==
  IF Len(s) > 0 /\ CharAt(s, 1) \in {"-", "+"}
    THEN IsUnsignedNumeral(SubSeq(s, 2, Len(s)))
    ELSE IsUnsignedNumeral(s)

\* the values the claim gives to the numeric inputs
NumericValue ==
  ("1.234,56" :> Rat(123456, 100)) @@ ("1,234.56" :> Rat(123456, 100))
    @@ ("1.000" :> Rat(1000, 1)) @@ ("25,50" :> Rat(51, 2))
    @@ (" 25,50 " :> Rat(51, 2)) @@ ("10.000.000" :> Rat(10000000, 1))
    @@ ("1.5" :> Rat(3, 2)) @@ ("1.00" :> Rat(1, 1))
    @@ ("1.0000" :> Rat(1, 1)) @@ ("12.3456" :> Rat(123456, 10000))

ClaimedValue(value) ==
  IF Trim(value) = "" \/ ~IsNumeric(Normalized(Trim(value))) THEN Zero
  ELSE NumericValue[value]

\* every deposit row whose amount is in S has the claimed value
NumberOutcome(S) ==
  \A i \in RowIdx :
    (transactions[i] \in NumberRows /\ transactions[i].amount \in S) =>
      /\ tv.done =>
           IF ClaimedValue(transactions[i].amount) = Zero
             THEN OnlySkipped(tv, i, "Zero quantity/amount")
             ELSE /\ OnlyRecords(tv, i, 1)
                  /\ IsTvCash(RecordSeq(tv, i)[1], "Deposit",
                              ClaimedValue(transactions[i].amount))
      /\ wf.done =>
           IF ClaimedValue(transactions[i].amount) = Zero
             THEN OnlySkipped(wf, i, "Zero quantity/amount")
             ELSE /\ OnlyRecords(wf, i, 1)
                  /\ IsWfCash(RecordSeq(wf, i)[1], transactions[i],
                              "DEPOSIT",
                              ClaimedValue(transactions[i].amount))

\* text that begins with a numeral without being one
LeadingNumerals ==
  {a \in NumberStrings :
     /\ Trim(a) # "" /\ ~IsNumeric(Normalized(Trim(a)))
     /\ parseFloat(Normalized(Trim(a))) # NaN}

\* C16 for every input that is numeric or begins with no numeral
C16_Numerals == NumberOutcome(NumberStrings \ LeadingNumerals)

C16_ParseEuropeanNumber == NumberOutcome(NumberStrings)

(***************************************************************************)
(* C17: for a non-reversal row of type "fee" with an accepted status the   *)
(* sign of amount alone decides the outcome.  A positive amount gives one  *)
(* cash Deposit record of abs(amount), a negative amount one fee record    *)
(* (FEE in Wealthfolio, "Taxes and fees" in TradingView) of abs(amount),   *)
(* a zero amount no record and one skipped entry "Zero fee amount"; the    *)
(* fee, tax, shares, price and isin columns leave no trace in the record.  *)
(***************************************************************************)
IsFeeRow(t) ==
  /\ ToLowerCase(t.type) = "fee"
  /\ AcceptedStatus(t.status)
  /\ ~HasReversalMarker(t)

C17_FeeRows ==
  \A i \in RowIdx :
    IsFeeRow(transactions[i]) =>
      /\ tv.done =>
           IF AmountOf(transactions[i]) = Zero
             THEN OnlySkipped(tv, i, "Zero fee amount")
             ELSE /\ OnlyRecords(tv, i, 1)
                  /\ IsTvCash(RecordSeq(tv, i)[1],
                              IF AmountOf(transactions[i])[1] > 0
                                THEN "Deposit" ELSE "Taxes and fees",
                              RAbs(AmountOf(transactions[i])))
                  /\ RecordSeq(tv, i)[1].FillPrice = EmptyField
                  /\ RecordSeq(tv, i)[1].Commission = EmptyField
      /\ wf.done =>
           IF AmountOf(transactions[i]) = Zero
             THEN OnlySkipped(wf, i, "Zero fee amount")
             ELSE /\ OnlyRecords(wf, i, 1)
                  /\ IsWfCash(RecordSeq(wf, i)[1], transactions[i],
                              IF AmountOf(transactions[i])[1] > 0
                                THEN "DEPOSIT" ELSE "FEE",
                              RAbs(AmountOf(transactions[i])))
                  /\ RecordSeq(wf, i)[1].fee = Zero
                  /\ RecordSeq(wf, i)[1].amount
                       = RAbs(AmountOf(transactions[i]))

\* a fee refund with every other column filled and an unresolved isin,
\* converted to a deposit by both converters
C17_Witness ==
  /\ tv.done /\ wf.done
  /\ \E i \in RowIdx :
       /\ IsFeeRow(transactions[i])
       /\ AmountOf(transactions[i])[1] > 0
       /\ transactions[i].isin = IsinAbsent
       /\ transactions[i].fee # "" /\ transactions[i].shares # ""
       /\ RecordSeq(tv, i)[1].Side = "Deposit"
       /\ RecordSeq(wf, i)[1].activityType = "DEPOSIT"

(***************************************************************************)
(* C18: in the TradingView converter an interest-settlement row gives      *)
(* exactly one "Taxes and fees" record on $CASH with Qty = abs(tax) +      *)
(* abs(amount), or is skipped with "Zero tax/fee amount in interest        *)
(* settlement" when that sum is zero; the Qty is the sum of the unit       *)
(* prices of the TAX and FEE records the Wealthfolio converter emits for   *)
(* the row, and the row is skipped in one converter iff in the other.      *)
(***************************************************************************)
RECURSIVE SumUnitPrices(_)
SumUnitPrices(recs) ==
  IF Len(recs) = 0 THEN Zero
  ELSE RAdd(IF recs[1].activityType \in {"TAX", "FEE"}
              THEN recs[1].unitPrice ELSE Zero,
            SumUnitPrices(Tail(recs)))

TotalTaxPayment(t) == RAdd(RAbs(TaxOf(t)), RAbs(AmountOf(t)))

TvSettlementOutcome(i) ==
  /\ tv.done =>
       IF TotalTaxPayment(transactions[i]) = Zero
         THEN OnlySkipped(tv, i, "Zero tax/fee amount in interest settlement")
         ELSE /\ OnlyRecords(tv, i, 1)
              /\ IsTvCash(RecordSeq(tv, i)[1], "Taxes and fees",
                          TotalTaxPayment(transactions[i]))
  /\ (tv.done /\ wf.done) =>
       /\ SkippedOf(tv, i) # {} <=> SkippedOf(wf, i) # {}
       /\ RecordsOf(tv, i) # {} =>
            RecordSeq(tv, i)[1].Qty = SumUnitPrices(RecordSeq(wf, i))

\* C18 as stated: for every interest-settlement row
C18_Original ==
  \A i \in RowIdx :
    IsSettlementRow(transactions[i]) => TvSettlementOutcome(i)

\* C18 as amended: for every such row that passes the status gate and
\* carries no reversal marker
C18_Settlement ==
  \A i \in RowIdx :
    ( /\ IsSettlementRow(transactions[i])
      /\ AcceptedStatus(transactions[i].status)
      /\ ~HasReversalMarker(transactions[i]) ) => TvSettlementOutcome(i)

\* a settlement by negative amount alone, with tax, converted by both: one
\* TradingView record for the TAX and the FEE record of Wealthfolio
C18_Witness ==
  /\ tv.done /\ wf.done
  /\ \E i \in RowIdx :
       /\ transactions[i].description = "Zinsen"
       /\ transactions[i].amount = "-155,04"
       /\ transactions[i].tax = "185,98"
       /\ AcceptedStatus(transactions[i].status)
       /\ Len(RecordSeq(tv, i)) = 1 /\ Len(RecordSeq(wf, i)) = 2

(***************************************************************************)
(* C19: a dividend or distribution row with an empty isin is never an      *)
(* error.  It is routed to the cash pseudo-symbol ($CASH in TradingView,   *)
(* $CASH-{currency} in Wealthfolio) and emitted as a Dividend / DIVIDEND   *)
(* record when its amount is nonzero, whatever the symbol map holds.       *)
(***************************************************************************)
IsCashDividend(t) ==
  NormType(t) \in {"dividend", "distribution"} /\ t.isin = ""

CashDividendOutcome(i) ==
  /\ tv.done =>
       /\ OnlyRecords(tv, i, 1)
       /\ IsTvCash(RecordSeq(tv, i)[1], "Dividend",
                   RAbs(AmountOf(transactions[i])))
  /\ wf.done =>
       /\ OnlyRecords(wf, i, 1)
       /\ IsWfCash(RecordSeq(wf, i)[1], transactions[i], "DIVIDEND",
                   RAbs(AmountOf(transactions[i])))

NeverAnError(i) ==
  /\ tv.done => ErrorsOf(tv, i) = {}
  /\ wf.done => ErrorsOf(wf, i) = {}

NothingThrown(c) ==
  \A j \in 1..Len(c.transactions) : "thrown" \notin DOMAIN c.transactions[j]

C20_AggregateGroupCalls ==
  /\ tv.done =>
       /\ NothingThrown(tv)
       /\ \A g \in 1..Len(tv.groups) :
            /\ Len(tv.groups[g]) >= 2
            /\ tv.groups[g][1].Side \in {"Buy", "Sell"}
            /\ \A k \in 1..Len(tv.groups[g]) :
                 /\ tv.groups[g][k].Symbol = tv.groups[g][1].Symbol
                 /\ tv.groups[g][k].Side = tv.groups[g][1].Side
  /\ wf.done =>
       /\ NothingThrown(wf)
       /\ \A g \in 1..Len(wf.groups) :
            /\ Len(wf.groups[g]) >= 2
            /\ wf.groups[g][1].activityType \in {"BUY", "SELL"}
            /\ \A k \in 1..Len(wf.groups[g]) :
                 /\ wf.groups[g][k].symbol = wf.groups[g][1].symbol
                 /\ wf.groups[g][k].activityType
                      = wf.groups[g][1].activityType

\* both aggregators called aggregateGroup, for a group of three among
\* records that were not grouped
C20_Witness ==
  /\ tv.done /\ wf.done
  /\ \E g \in 1..Len(tv.groups) : Len(tv.groups[g]) = 3
  /\ \E g \in 1..Len(wf.groups) : Len(wf.groups[g]) = 3
  /\ Len(tv.transactions) > 1

(***************************************************************************)
(* C21: every entry of errors and of skipped carries row = zero-based      *)
(* index of the row it came from + 2; both lists are strictly increasing   *)
(* in row, no row number occurs in both, and every row number lies in      *)
(* 2..n+1 for an input of n rows.                                          *)
(***************************************************************************)
RowNumbers(entries) == {entries[j].row : j \in 1..Len(entries)}

StrictlyIncreasing(entries) ==
  \A j \in 1..(Len(entries) - 1) : entries[j].row < entries[j + 1].row

RowNumbering(c) ==
  c.done =>
    /\ \A j \in 1..Len(c.errors) : c.errors[j].row = c.errorOrigin[j] + 2
    /\ \A j \in 1..Len(c.skipped) :
         c.skipped[j].row = c.skippedOrigin[j] + 2
    /\ StrictlyIncreasing(c.errors) /\ StrictlyIncreasing(c.skipped)
    /\ RowNumbers(c.errors) \cap RowNumbers(c.skipped) = {}
    /\ RowNumbers(c.errors) \cup RowNumbers(c.skipped)
         \subseteq 2..(Len(transactions) + 1)

C21_RowNumbers == RowNumbering(tv) /\ RowNumbering(wf)

\* an error row followed by a skipped row, in both converters
C21_Witness ==
  /\ tv.done /\ wf.done
  /\ Len(transactions) = 2
  /\ \E a, b \in {1, 2} :
       /\ a # b
       /\ RowNumbers(tv.errors) = {a + 1} /\ RowNumbers(tv.skipped) = {b + 1}
       /\ RowNumbers(wf.errors) = {a + 1} /\ RowNumbers(wf.skipped) = {b + 1}
       /\ b = 2

(***************************************************************************)
(* C22: resolveIsinToTicker queries the exchange codes strictly in the     *)
(* order GM, GR, GT, GS, GF, GH, QT, stops at the first code whose         *)
(* response has data and issues no query after it; for an instrument that  *)
(* is neither a structured product nor an IE/LU/DE ETF the result keeps    *)
(* that code as exchCode and its mapped exchange as prefix; if no code     *)
(* returns data the result is null.                                        *)
(***************************************************************************)
PriorityOrder == <<"GM", "GR", "GT", "GS", "GF", "GH", "QT">>

ExchangeOf(code) ==
  CASE code = "GM" -> "GETTEX" [] code = "GR" -> "XETR"
    [] code = "GT" -> "TRADEGATE" [] code = "GS" -> "SWB"
    [] code = "GF" -> "FRA" [] code = "GH" -> "XHAM"
    [] code = "QT" -> "QUOTRIX"

IsRegionalEtf(isin, resolved) ==
  /\ (IsKind(resolved.securityType, {"etf"})
        \/ IsKind(resolved.securityType2, {"etf"}))
  /\ SubSeq(isin, 1, 2) \in {"IE", "LU", "DE"}

IsPlainInstrument(isin, resolved) ==
  /\ ~IsStructured(resolved)
  /\ ~HasWord(resolved.securityType, {"structured"})
  /\ ~IsRegionalEtf(isin, resolved)

\* the codes queried so far are a prefix of the priority order, and only
\* the last of them can have returned data
QueriedInOrder ==
  /\ Len(figi.queried) <= Len(PriorityOrder)
  /\ \A k \in 1..Len(figi.queried) :
       /\ figi.queried[k][1] = PriorityOrder[k]
       /\ figi.queried[k][2] => (k = Len(figi.queried) /\ figi.done)

LookupResult ==
  (figi.done /\ figi.isin # "") =>
    LET last == figi.queried[Len(figi.queried)]
    IN  IF last[2]
          THEN /\ Found # Null
               /\ IsPlainInstrument(figi.isin, Found) =>
                    /\ Found.exchCode = <<last[1]>>
                    /\ Found.exchange = ExchangeOf(last[1])
                    /\ Found.fullSymbol
                         = ExchangeOf(last[1]) \o ":" \o Found.ticker
          ELSE /\ Len(figi.queried) = Len(PriorityOrder)
               /\ Found = Null
               /\ figi.isin \in DOMAIN symbolMap

IsUnknownStatus(status) ==
  /\ Trim(status) # ""
  /\ ~HasSkipWord(status)
  /\ ~\E w \in {"executed", "completed", "done"} : LowerHas(status, w)

\* the input of i rows that ends in row i with status Executed and has an
\* error row everywhere else
ExecutedTwin(i) ==
  [j \in 1..i |-> IF j = i THEN [transactions[i] EXCEPT !.status = "Executed"]
                           ELSE ErrorRow]

C23_UnknownStatus ==
  \A i \in RowIdx :
    /\ IsUnknownStatus(transactions[i].status) =>
         \A c \in {tv, wf} :
           c.done =>
             OnlySkipped(c, i, "Unknown status: " \o transactions[i].status)
    /\ Trim(transactions[i].status) = "" =>
         /\ tv.done =>
              Entries(tv, i)
                = Entries(convertTransactions(ExecutedTwin(i), symbolMap,
                                              "detailed"), i)
         /\ wf.done =>
              Entries(wf, i)
                = Entries(convertToWealthfolio(ExecutedTwin(i), symbolMap,
                                               "detailed"), i)

\* a fee row with a blank status that became a record in both converters,
\* after a row that did not
C23_Witness ==
  /\ tv.done /\ wf.done
  /\ \E i \in RowIdx :
       /\ i > 1
       /\ transactions[i].status = "   "
       /\ transactions[i].type = "Fee"
       /\ ~HasReversalMarker(transactions[i])
       /\ Len(RecordSeq(tv, i)) = 1 /\ Len(RecordSeq(wf, i)) = 1

(***************************************************************************)
(* C24: aggregation leaves non-trade records untouched.  Every record      *)
(* whose direction is not Buy or Sell appears in the aggregated output     *)
(* exactly once and field for field unchanged, two consecutive non-trade   *)
(* records of one kind are never combined, and the output records follow   *)
(* the order of the input records they came from.                          *)
(***************************************************************************)
\* out[1], out[2], ... are made of consecutive segments of in, in order: a
\* non-trade record of itself alone, a trade record of trades of its group
RECURSIVE MadeInOrder(_, _)
MadeInOrder(in, out) ==
  IF Len(out) = 0 THEN Len(in) = 0
  ELSE \E n \in 1..Len(in) :
         /\ IF IsTradeView(out[1])
              THEN \A k \in 1..n : SameGroup(in[k], out[1])
              ELSE n = 1 /\ in[1] = out[1]
         /\ MadeInOrder(SubSeq(in, n + 1, Len(in)), Tail(out))

C24_NonTradeUntouched ==
  /\ Aggregated(tv) =>
       /\ SelectSeq(tv.transactions, LAMBDA r : r.Side \notin {"Buy", "Sell"})
            = SelectSeq(tv.result, LAMBDA r : r.Side \notin {"Buy", "Sell"})
       /\ MadeInOrder(TvViews(tv.result), TvViews(tv.transactions))
  /\ Aggregated(wf) =>
       /\ SelectSeq(wf.transactions,
                    LAMBDA r : r.activityType \notin {"BUY", "SELL"})
            = SelectSeq(wf.result,
                        LAMBDA r : r.activityType \notin {"BUY", "SELL"})
       /\ MadeInOrder(WfViews(wf.result), WfViews(wf.transactions))

\* two deposits in a row after a buy: three records out of three
C24_Witness ==
  /\ Aggregated(tv) /\ Aggregated(wf)
  /\ transactions = <<Buy10at5, DepositRow, DepositRow>>
  /\ Len(tv.transactions) = 3 /\ tv.transactions[3].Side = "Deposit"
  /\ Len(wf.transactions) = 3 /\ wf.transactions[3].activityType = "DEPOSIT"

(***************************************************************************)
(* C25: extractUniqueIsins returns every ISIN that needs symbol            *)
(* resolution.  For every row for which a converter looks the isin up in   *)
(* the symbol map (status gate passed, no special-case detector fired,     *)
(* mapped side Buy, Sell or Dividend, isin non-empty) the isin is an       *)
(* element of extractUniqueIsins(rows); the result holds no duplicates     *)
(* and no empty string.                                                    *)
(***************************************************************************)
UniqueIsins == {handle.uniqueIsins[k] : k \in 1..Len(handle.uniqueIsins)}

Extracted == handle.step \in {"resolving", "converting"}

NoSpecialCase(t) ==
  /\ ~HasReversalMarker(t)
  /\ ToLowerCase(t.type) \notin {"fee", "taxes"}
  /\ ~IsSettlementRow(t)

TvLooksUp(t) ==
  /\ AcceptedStatus(t.status)
  /\ NoSpecialCase(t)
  /\ mapTransactionType(t.type) \in {"Buy", "Sell", "Dividend"}
  /\ t.isin # ""

WfLooksUp(t) ==
  /\ AcceptedStatus(t.status)
  /\ NoSpecialCase(t)
  /\ WfMapTransactionType(t.type) \in {"BUY", "SELL", "DIVIDEND"}
  /\ t.isin # ""

WellFormed ==
  /\ \A j, k \in 1..Len(handle.uniqueIsins) :
       j # k => handle.uniqueIsins[j] # handle.uniqueIsins[k]
  /\ "" \notin UniqueIsins

\* the Wealthfolio half of C25, and the shape of the result
C25_Wealthfolio ==
  Extracted =>
    /\ WellFormed
    /\ \A i \in RowIdx :
         WfLooksUp(transactions[i]) => transactions[i].isin \in UniqueIsins

C25_ExtractUniqueIsins ==
  Extracted =>
    /\ WellFormed
    /\ \A i \in RowIdx :
         (TvLooksUp(transactions[i]) \/ WfLooksUp(transactions[i])) =>
           transactions[i].isin \in UniqueIsins

(***************************************************************************)
(* C26: queryOpenFigi retries the same (isin, exchCode) query, after a     *)
(* delay, exactly when the response status is 429, with no bound on the    *)
(* number of retries; any other response that is not ok, and a fetch that  *)
(* throws, returns null at once.  Hence resolveIsinToTicker terminates     *)
(* when the service eventually answers every query with a response other   *)
(* than 429, and does not terminate while a query is answered 429.         *)
(***************************************************************************)
\* the call waits to retry exactly when the last response was a 429
RetryOnly429 == (~figi.done /\ figi.pc = "delay") => figi.status = 429

\* a 429 moves to the delay and nothing else; the delay leads back to the
\* same query; any other response is the answer of the query, which is
\* counted as queried without a delay
SameQueryRetried ==
  (figi' # figi) =>
    IF figi'.status = 429
      THEN /\ ~figi'.done
           /\ figi'.isin = figi.isin
           /\ figi'.tried = figi.tried
           /\ figi'.queried = figi.queried
           /\ figi'.pc # figi.pc
    ELSE /\ figi.pc = "fetch" /\ figi'.pc = "fetch"
         /\ Len(figi'.queried) = Len(figi.queried) + 1
         /\ (figi'.status # 200) => ~figi'.queried[Len(figi'.queried)][2]

C26_RetryOn429 ==
  /\ []RetryOnly429
  /\ [][SameQueryRetried]_vars
  /\ <>figi.done

\* never answered 429, the lookup would end all the same: the retries are
\* what this behaviour adds
C26_Witness ==
  /\ figi.status = 429 /\ figi.pc = "fetch"
  /\ figi.tried = 2

(***************************************************************************)
(* C27: every record either converter emits, in detailed and in aggregated *)
(* mode, has a strictly positive quantity: a BUY/SELL row whose            *)
(* abs(shares) is zero is skipped ("No shares/quantity specified") and     *)
(* never emitted, every cash/dividend row whose value is zero is skipped,  *)
(* and aggregation of positive-quantity records yields positive-quantity   *)
(* records.                                                                *)
(***************************************************************************)
PositiveField(field) == field # EmptyField /\ RPos(field)

TvPositive(recs) == \A j \in 1..Len(recs) : PositiveField(recs[j].Qty)
WfPositive(recs) == \A j \in 1..Len(recs) : PositiveField(recs[j].quantity)

NoAdjacentGroup(vs) ==
  \A j \in 1..(Len(vs) - 1) : ~SameGroup(vs[j], vs[j + 1])

C28_Idempotent ==
  /\ Aggregated(tv) =>
       /\ NoAdjacentGroup(TvViews(tv.transactions))
       /\ aggregateTransactions(tv.transactions) = tv.transactions
  /\ Aggregated(wf) =>
       /\ NoAdjacentGroup(WfViews(wf.transactions))
       /\ WfAggregateTransactions(wf.transactions) = wf.transactions

\* three rows of which two were merged, followed by a record of another
\* group, in both converters
C28_Witness ==
  /\ Aggregated(tv) /\ Aggregated(wf)
  /\ Len(tv.result) = 3 /\ Len(tv.transactions) = 2
  /\ Len(wf.result) = 3 /\ Len(wf.transactions) = 2
  /\ IsTradeView(TvView(tv.transactions[2]))
  /\ IsTradeView(WfView(wf.transactions[2]))

(***************************************************************************)
(* C29: aggregation conserves totals.  For every input sequence and every  *)
(* (symbol, direction) with direction Buy or Sell, the sum of quantities,  *)
(* the sum of quantity*price and the sum of fees over the output records   *)
(* equal those sums over the input records; the number of non-trade        *)
(* records is unchanged and the output is never longer than the input.     *)
(***************************************************************************)
\* the records of vs that are trades of symbol in direction side
RECURSIVE OfKey(_, _, _)
OfKey(vs, symbol, side) ==
  IF Len(vs) = 0 THEN <<>>
  ELSE LET front == OfKey(SubSeq(vs, 1, Len(vs) - 1), symbol, side)
           v == vs[Len(vs)]
       IN  IF IsTradeView(v) /\ v.symbol = symbol /\ v.side = side
             THEN Append(front, v) ELSE front

Totals(vs) ==
  <<SumQty(vs, 1, Len(vs)), SumValue(vs, 1, Len(vs)), SumFee(vs, 1, Len(vs))>>

NonTrades(vs) == Cardinality({j \in 1..Len(vs) : ~IsTradeView(vs[j])})

Conserved(in, out) ==
  /\ \A j \in 1..Len(in) :
       IsTradeView(in[j]) =>
         Totals(OfKey(out, in[j].symbol, in[j].side))
           = Totals(OfKey(in, in[j].symbol, in[j].side))
  /\ \A j \in 1..Len(out) :
       IsTradeView(out[j]) =>
         \E k \in 1..Len(in) : SameGroup(in[k], out[j])
  /\ NonTrades(out) = NonTrades(in)
  /\ Len(out) <= Len(in)

RECURSIVE Converted(_, _)
Converted(c, k) ==
  IF k = 0 THEN <<>>
  ELSE IF RecordsOf(c, k) = {} THEN Converted(c, k - 1)
  ELSE Append(Converted(c, k - 1), transactions[k])

\* when every converted row is a trade of one symbol and direction, whatever
\* rows ended in skipped or errors between them, the output is one record
\* of the whole quantity
MergedAcross(views, out) ==
  (Len(views) >= 1 /\ \A j \in 1..Len(views) : SameGroup(views[1], views[j]))
    => /\ Len(out) = 1
       /\ out[1].qty = TotalQty(views, Len(views))

C30_SkippedDoNotCloseGroup ==
  /\ Aggregated(tv) =>
       LET detailed == convertTransactions(transactions, symbolMap, "detailed")
           kept == Converted(tv, Len(transactions))
       IN  /\ tv.errors = detailed.errors
           /\ tv.skipped = detailed.skipped
           /\ tv.transactions = aggregateTransactions(detailed.transactions)
           /\ tv.transactions =
                convertTransactions(kept, symbolMap, "aggregated").transactions
           /\ MergedAcross(TvViews(tv.result), TvViews(tv.transactions))
  /\ Aggregated(wf) =>
       LET detailed == convertToWealthfolio(transactions, symbolMap, "detailed")
           kept == Converted(wf, Len(transactions))
       IN  /\ wf.errors = detailed.errors
           /\ wf.skipped = detailed.skipped
           /\ wf.transactions =
                WfAggregateTransactions(detailed.transactions)
           /\ wf.transactions =
                convertToWealthfolio(kept, symbolMap,
                                     "aggregated").transactions
           /\ MergedAcross(WfViews(wf.result), WfViews(wf.transactions))

\* a buy, a cancelled buy and a buy give one record of 30 and one skipped
\* entry, in both converters
C30_Witness ==
  /\ transactions = <<Buy10at5, SkippedRow, Buy20at6>>
  /\ Aggregated(tv) /\ Aggregated(wf)
  /\ Len(tv.transactions) = 1 /\ Len(wf.transactions) = 1
  /\ TvView(tv.transactions[1]).qty = Rat(30, 1)
  /\ WfView(wf.transactions[1]).qty = Rat(30, 1)
  /\ Len(tv.skipped) = 1 /\ Len(wf.skipped) = 1

====
